---- MODULE Spec2Model ----
(***************************************************************************)
(* microchess: the periodic generator of random chess games and its        *)
(* size-bounded, atomically persisted JSON log (src/unnamed/part_003).     *)
(*                                                                         *)
(* The module holds these state machines over one set of variables:        *)
(*   Spec      the scheduler (startup, timer ticks, runOnce, the write     *)
(*             retries, the signal handlers and gracefulShutdown) and the  *)
(*             store file it rewrites; IoFairSpec is Spec with every       *)
(*             pending I/O completion and timer eventually delivered;      *)
(*   TrimSpec  trimLogsToFitSize applied to bounded inputs;                *)
(*   LoadSpec  runOnce of part_003 and of src/microchess/microchess.js,    *)
(*             two processes loading and saving one file;                  *)
(*   RngSpec   the seed hash and the streams of createRngFromSeed;         *)
(*   GenSpec   generateRandomChessGame against a small rules provider, and *)
(*             the replay tool (src/microchess/jsonbin_randomchess.js from *)
(*             line 97) run with --index on the entries generated;         *)
(*   ToolSpec  the replay tool's command line (options, path check, exit   *)
(*             codes) and the upload task's dedup step on such entries.    *)
(* A Node.js process runs one callback at a time; an async function gives  *)
(* up control only at an await of real I/O or of a timer, so every action  *)
(* below is one such uninterrupted stretch of the code.                    *)
(***************************************************************************)
EXTENDS Integers, Sequences, FiniteSets, TLC

(***************************************************************************)
(* Bounds of the model.                                                    *)
(***************************************************************************)
\* runOnce calls in one process life (started and skipped ones alike)
MaxInvocations == 3
\* records in the store file when the process starts
MaxInitLen == 1
\* records in an input of trimLogsToFitSize (TrimSpec)
MaxTrimLen == 4
\* streams made from one seed (RngSpec)
MaxStreams == 2
\* draws from one stream (RngSpec)
MaxDraws == 3
\* calls of the generator (GenSpec)
MaxStore == 2
\* the largest ply cap (GenSpec)
MaxPly == 3
\* calls of loadLogs on one file (LoadSpec)
MaxLoads == 2

(***************************************************************************)
(* Program constants.                                                      *)
(***************************************************************************)
\* part_003:71, the default of MICROCHESS_MAX_WRITE_RETRIES
MAX_WRITE_RETRIES == 3
\* part_003:341, const deadline = Date.now() + 5000
SHUTDOWN_TIMEOUT_MS == 5000
\* part_003:343, setTimeout(r, 200)
SHUTDOWN_POLL_MS == 200
\* part_003:284-299: an entry is an object of 12 scalar fields, which
\* JSON.stringify(.., null, 2) prints on 14 lines
RECORD_LINES == 14
\* part_003:96, os.EOL appended to the file's text (one byte on POSIX)
EOL_BYTES == 1

\* microchess.js:11, MAX_SIZE_BYTES of the synchronous generator (1 MiB, fixed)
MICROCHESS_JS_MAX_SIZE_BYTES == 1048576
\* microchess.js:114-124: its entry is an object of 9 scalar fields, printed
\* on 11 lines
MICROCHESS_JS_RECORD_LINES == 11

\* path.sep and "." as character codes
SEP == 47
DOT == 46

\* part_003:277, toISOString().slice(0, 10): the UTC day, 86400000 ms long
MS_PER_DAY == 86400000

\* Byte lengths of JSON.stringify(entry, null, 2) the model draws entries from:
\* two 470-byte entries fit a 1024-byte budget and three do not; a 2000-byte
\* entry alone exceeds it.
RecordBytes == {470, 2000}
\* The value of MICROCHESS_MAX_SIZE_BYTES the scheduler runs with
Budgets == {1024}
\* Budgets of TrimSpec (part_003:68 accepts any non-zero integer)
TrimBudgets == {1, 2, 1024, 2048}

VARIABLES
    MAX_SIZE_BYTES,     \* part_003:68, fixed when the process starts
    RUN_ONCE,           \* part_003:73, fixed when the process starts
    file,               \* the content at OUTPUT_FILE
    running,            \* part_003:304
    shutdownInitiated,  \* part_003:330
    invs,               \* the runOnce calls so far, in call order
    timer,              \* the setInterval of part_003:377 is registered
    exitTimer,          \* the setTimeout(process.exit, 500) of part_003:387 is pending
    shutdownMode,       \* "none", "final" (awaiting its own runOnce) or "wait" (polling)
    waited,             \* ms since gracefulShutdown computed its deadline
    drains,             \* how many times the body of gracefulShutdown has run
    retriggered,        \* a later event reached gracefulShutdown after the first
    exited,             \* process.exit has been called
    tLogs, tBudget, tOut, tPc,  \* TrimSpec: argument, budget, result, position
    rngSeed,            \* RngSpec: the seed string the streams are made from
    rngName,            \* RngSpec: the algorithm createRngFromSeed selects
    streams,            \* RngSpec: the streams made so far, each with its draws
    engine,             \* GenSpec: the rules provider behind ../dist/cjs/chess.js
    MAX_MOVES,          \* part_003:70, the ply cap
    seedrandomAvailable,        \* part_003:187, in the generator's process
    seedrandomVersion,  \* part_003:207, version of seedrandom/package.json as read
    replaySeedrandomAvailable,  \* jsonbin_randomchess.js:124, in the replay's process
    now,                \* GenSpec: the wall clock
    store,              \* GenSpec: the generator's outputs so far, oldest first
    replay,             \* GenSpec: the runs of the replay tool, with what each did
    asked,              \* GenSpec: what each call of the generator was given
    uploaded,           \* ToolSpec: the request bodies the uploader has sent
    cmd,                \* ToolSpec: the replay commands run, with what each did
    asOneFile,          \* ToolSpec: jsonbin_randomchess.js is run as the one file it is
    ldFile,             \* LoadSpec: the content at OUTPUT_FILE
    ldOut               \* LoadSpec: the calls of loadLogs, with what each did

schedVars == <<MAX_SIZE_BYTES, RUN_ONCE, file, running, shutdownInitiated, invs,
               timer, exitTimer, shutdownMode, waited, drains,
               retriggered, exited>>
trimVars == <<tLogs, tBudget, tOut, tPc>>
rngVars == <<rngSeed, rngName, streams>>
genVars == <<engine, MAX_MOVES, seedrandomAvailable, seedrandomVersion,
             replaySeedrandomAvailable, now, store, replay, asked>>
toolVars == <<uploaded, cmd, asOneFile, ldFile, ldOut>>
\* what the scheduler's steps leave alone
pureVars == <<trimVars, rngVars, genVars, toolVars>>
vars == <<schedVars, pureVars>>

\* no stream has been asked for
RngIdle ==
    /\ rngSeed = <<>>
    /\ rngName = "none"
    /\ streams = <<>>

\* no game has been generated and no replay run
GenIdle ==
    /\ engine = "none"
    /\ MAX_MOVES = 0
    /\ seedrandomAvailable = FALSE
    /\ seedrandomVersion = "null"
    /\ replaySeedrandomAvailable = FALSE
    /\ now = 0
    /\ store = <<>>
    /\ replay = <<>>
    /\ asked = <<>>

(***************************************************************************)
(* Records and their serialisation.  An entry is modelled by its identity  *)
(* (the number of the runOnce call that generated it; entries found in the *)
(* file at startup have ids below 1), by the byte length of its own        *)
(* JSON.stringify(entry, null, 2), printed on `lines` lines, and by the    *)
(* kind of value each of its properties holds (part_003:284-298): strings, *)
(* the finite number moves.length, and for rng_version the null that       *)
(* `rng_version || null` gives for the default generator, which has no     *)
(* version (seedrandom's version is a string like the other properties).   *)
(***************************************************************************)
GameRecord(i, b) ==
    [id |-> i, bytes |-> b, lines |-> RECORD_LINES,
     fields |-> [process |-> "string", message |-> "string",
                 status |-> "string", timestamp |-> "string",
                 move_count |-> "number", result |-> "string",
                 reason |-> "string", final_fen |-> "string",
                 pgn |-> "string", rng |-> "string",
                 rng_version |-> "null", seed |-> "string"]]

\* a serialiser that leaves out the properties holding null
JSONstringifyNoNull(logs) ==
    [j \in 1..Len(logs) |->
        LET f == logs[j].fields
        IN  [logs[j] EXCEPT !.fields =
                [k \in {n \in DOMAIN f : f[n] \notin {"undefined", "null"}} |->
                    f[k]]]]

\* The value the text of JSON.stringify(logs, null, 2) denotes, which is what
\* JSON.parse gives back for it (part_003:96, 108): a property holding
\* undefined, a function or a symbol is left out, a number that is not finite
\* becomes null, a Date becomes what its toJSON returns (the ISO string of a
\* valid Date, null for an invalid one such as new Date(NaN)); strings, finite
\* numbers, booleans and null are carried as they are.
\* The kind "Date" is a Date with a finite time value, "InvalidDate" one whose
\* time value is NaN.
JSONstringify(logs) ==
    [j \in 1..Len(logs) |->
        LET f == logs[j].fields
        IN  [logs[j] EXCEPT !.fields =
                [k \in {n \in DOMAIN f :
                            f[n] \notin {"undefined", "function", "symbol"}} |->
                    CASE f[k] \in {"NaN", "Infinity", "InvalidDate"} -> "null"
                      [] f[k] = "Date" -> "string"
                      [] OTHER -> f[k]]]]

RECURSIVE SumBytes(_)
SumBytes(logs) ==
    IF logs = <<>> THEN 0
    ELSE (Head(logs).bytes + 2 * Head(logs).lines + 2) + SumBytes(Tail(logs))

\* Buffer.byteLength(JSON.stringify(logs, null, 2), 'utf8'): "[]" for the empty
\* array; otherwise "[\n", the entries indented by two spaces on each of their
\* lines and joined by ",\n", then "\n]".
byteLength(logs) ==
    IF logs = <<>> THEN 2 ELSE 2 + SumBytes(logs)

(***************************************************************************)
(* trimLogsToFitSize, part_003:123-137.                                    *)
(***************************************************************************)
\* the loop with the eviction at the wrong end (logs.pop() for logs.shift())
RECURSIVE trimDropNewest(_, _)
trimDropNewest(logs, budget) ==
    IF byteLength(logs) > budget /\ Len(logs) > 0
    THEN trimDropNewest(SubSeq(logs, 1, Len(logs) - 1), budget)
    ELSE logs

RECURSIVE trimLogsToFitSize(_, _)
trimLogsToFitSize(logs, budget) ==
    IF byteLength(logs) > budget /\ Len(logs) > 0
    THEN trimLogsToFitSize(Tail(logs), budget)
    ELSE logs

(***************************************************************************)
(* The content at a path.  A text is what JSON.stringify(data, null, 2)    *)
(* gives, followed by `eol` bytes of line end; `logs` is the value that    *)
(* text denotes; it is `size` bytes long, of which the first `written`     *)
(* bytes are on disk: a complete text has written = size.                  *)
(***************************************************************************)
Absent == [kind |-> "absent", logs |-> <<>>, size |-> 0, written |-> 0, eol |-> 0]

\* a file holding valid JSON that is no array, such as "{}" and a line end
NonArray ==
    [kind |-> "nonarray", logs |-> <<>>, size |-> 3, written |-> 3, eol |-> 1]

\* a file holding no JSON at all, such as "x"
Malformed ==
    [kind |-> "malformed", logs |-> <<>>, size |-> 1, written |-> 1, eol |-> 0]

\* part_003:96, const json = JSON.stringify(data, null, 2) + os.EOL
jsonText(logs) ==
    [kind |-> "array", logs |-> JSONstringify(logs),
     size |-> byteLength(logs) + EOL_BYTES,
     written |-> byteLength(logs) + EOL_BYTES, eol |-> EOL_BYTES]

\* JSON.parse accepts a text: it is JSON, and all of it but perhaps its final
\* line end is there (every shorter prefix lacks the closing bracket)
parses(text) ==
    text.kind # "malformed" /\ text.written >= text.size - text.eol

\* no tool has run on the store
ToolIdle ==
    /\ uploaded = <<>>
    /\ cmd = <<>>
    /\ asOneFile = FALSE
    /\ ldFile = Absent
    /\ ldOut = <<>>

(***************************************************************************)
(* TrimSpec: trimLogsToFitSize on every non-empty input of at most         *)
(* MaxTrimLen entries (its one caller, writeLogsWithRetries, passes the    *)
(* loaded sequence with the new entry pushed) and every budget.            *)
(***************************************************************************)
SeqsUpTo(n) ==
    UNION { [1..k -> RecordBytes] : k \in 1..n }

TrimInputs ==
    { [j \in 1..Len(s) |-> GameRecord(j, s[j])] : s \in SeqsUpTo(MaxTrimLen) }

SchedIdle ==
    /\ MAX_SIZE_BYTES = 1024
    /\ RUN_ONCE = FALSE
    /\ file = Absent
    /\ running = FALSE
    /\ shutdownInitiated = FALSE
    /\ invs = <<>>
    /\ timer = FALSE
    /\ exitTimer = FALSE
    /\ shutdownMode = "none"
    /\ waited = 0
    /\ drains = 0
    /\ retriggered = FALSE
    /\ exited = FALSE

TrimInit ==
    /\ SchedIdle /\ RngIdle /\ GenIdle /\ ToolIdle
    /\ tLogs \in TrimInputs
    /\ tBudget \in TrimBudgets
    /\ tOut = <<>>
    /\ tPc = "call"

TrimCall ==
    /\ tPc = "call"
    /\ tOut' = trimLogsToFitSize(tLogs, tBudget)
    /\ tPc' = "returned"
    /\ UNCHANGED <<tLogs, tBudget, schedVars, rngVars, genVars, toolVars>>

TrimNext == TrimCall

TrimSpec == TrimInit /\ [][TrimNext]_vars

(***************************************************************************)
(* The scheduler, part_003:304-389.                                        *)
(***************************************************************************)
Min(a, b) == IF a < b THEN a ELSE b

\* loadLogs, part_003:104-116, once existsSync has said the file is there:
\* readFile may reject (readOk = FALSE), JSON.parse may throw, the value may be
\* no array; each of these gives the empty array.
loadLogs(f, readOk) ==
    IF f.kind = "absent" \/ ~readOk THEN <<>>
    ELSE IF ~parses(f) THEN <<>>
    ELSE IF f.kind = "array" THEN f.logs
    ELSE <<>>

\* the logger.warn calls of loadLogs, part_003:110 (the value is no array) and
\* part_003:113 (readFile rejected or JSON.parse threw)
loadLogsWarns(f, readOk) ==
    IF f.kind = "absent" THEN FALSE
    ELSE IF ~readOk \/ ~parses(f) THEN TRUE
    ELSE f.kind # "array"

\* loadLogs of the synchronous generator, microchess.js:36-47: what it returns
\* and whether it warned (line 44, in the catch block alone)
microchessLoadLogs(f, readOk) ==
    IF f.kind = "absent" THEN [logs |-> <<>>, warned |-> FALSE]
    ELSE IF ~readOk \/ ~parses(f) THEN [logs |-> <<>>, warned |-> TRUE]
    ELSE IF f.kind = "array" THEN [logs |-> f.logs, warned |-> FALSE]
    ELSE [logs |-> <<>>, warned |-> FALSE]

\* A runOnce call: who called it, where it is, the store's content when it
\* began, its locals (existing, toWrite, attempt), the atomicWriteJson calls it
\* has made, the bytes of its current temporary file, and how it ended.
BlankInv(by) ==
    [by |-> by, pc |-> "reading", before |-> Absent, existing |-> <<>>,
     toWrite |-> <<>>, attempt |-> 0, calls |-> 0, tmp |-> 0,
     outcome |-> "none"]

\* a call that has passed the guard and awaits readFile
NewInv(by) ==
    [BlankInv(by) EXCEPT !.before = file]

\* part_003:307-310: the call returns at once
SkippedInv(by) ==
    [BlankInv(by) EXCEPT !.pc = "skipped", !.outcome = "skipped"]

\* a call that has ended: its locals are gone, who called it and how it ended
\* are kept
Ended(r) ==
    [BlankInv(r.by) EXCEPT !.pc = "done", !.outcome = r.outcome]

\* the entry put before the loaded ones (existing.unshift(entry))
unshift(existing, entry) == <<entry>> \o existing

\* part_003:317, existing.push(entry)
push(existing, entry) == Append(existing, entry)

\* part_003:316-318 and 143-147: the entry is generated and pushed, the copy is
\* trimmed, and the first atomicWriteJson call issues its writeFile
\* (0 < MAX_WRITE_RETRIES, so the loop is entered)
writeLogsWithRetries(r, loaded, i, b) ==
    LET existing == push(loaded, GameRecord(i, b))
    IN  [r EXCEPT !.existing = existing,
                  !.toWrite = trimLogsToFitSize(existing, MAX_SIZE_BYTES),
                  !.attempt = 0, !.calls = 1, !.tmp = 0, !.pc = "writing"]

\* runOnce without its overlap guard
RunGuardOff == FALSE

\* part_003:307, if (running)
RunGuard == running

\* runOnce without the reset of its flag
finallyRunningLeak == running

\* part_003:323, finally { running = false }
finallyRunning == FALSE

\* gracefulShutdown without its once-only guard
ShutdownGuardOff == FALSE

\* part_003:332, if (shutdownInitiated) return
ShutdownGuard == shutdownInitiated

\* atomicWriteJson with writeFile not awaited: rename is issued at once
writeFileNotAwaited(tmp, size) == TRUE

\* part_003:97-98: rename is issued once the awaited writeFile has written all
\* `size` bytes of the temporary file
writeFileAwaited(tmp, size) == tmp = size

\* the give-up test off by one (> for >=)
giveUpLate(attempt) == attempt > MAX_WRITE_RETRIES

\* part_003:152, if (attempt >= MAX_WRITE_RETRIES) throw err
giveUp(attempt) == attempt >= MAX_WRITE_RETRIES

\* part_003:145, while (attempt < MAX_WRITE_RETRIES)
loopCond(attempt) == attempt < MAX_WRITE_RETRIES

\* the wait loop without its deadline
beforeDeadlineAlways(w) == TRUE

\* part_003:342, Date.now() < deadline
beforeDeadline(w) == w < SHUTDOWN_TIMEOUT_MS

\* runOnce, part_003:306-318, up to its first await of real I/O.  With the
\* file absent loadLogs returns without I/O and the call runs on to writeFile.
runOnce(by) ==
    IF RunGuard
    THEN /\ invs' = Append(invs, SkippedInv(by))
         /\ UNCHANGED running
    ELSE /\ running' = TRUE
         /\ IF file.kind # "absent"
            THEN invs' = Append(invs, NewInv(by))
            ELSE \E b \in RecordBytes :
                    invs' = Append(invs,
                        writeLogsWithRetries(NewInv(by), <<>>, Len(invs) + 1, b))

\* The end of a runOnce call (part_003:319-324) and what its awaiting caller
\* does next in the same turn: startup goes on to part_003:375-388,
\* gracefulShutdown to its finally block (part_003:348-351), whose
\* process.exit(0) runs the exit listener of part_003:383, clearInterval(timer).
Finish(i, r) ==
    /\ invs' = [invs EXCEPT ![i] = Ended(r)]
    /\ running' = finallyRunning
    /\ CASE r.by = "startup" /\ ~RUN_ONCE ->
                timer' = TRUE /\ UNCHANGED <<exitTimer, exited>>
         [] r.by = "startup" /\ RUN_ONCE ->
                exitTimer' = TRUE /\ UNCHANGED <<timer, exited>>
         [] r.by = "shutdown" ->
                exited' = TRUE /\ timer' = FALSE /\ UNCHANGED exitTimer
         [] OTHER ->
                UNCHANGED <<timer, exitTimer, exited>>

\* The catch block of writeLogsWithRetries, part_003:149-158.
WriteError(i) ==
    LET a == invs[i].attempt + 1
    IN  IF giveUp(a)
        THEN Finish(i, [invs[i] EXCEPT !.attempt = a, !.outcome = "failed"])
        ELSE /\ invs' = [invs EXCEPT ![i].attempt = a, ![i].pc = "backoff",
                                     ![i].tmp = 0]
             /\ UNCHANGED <<running, timer, exitTimer, exited>>

drainVars == <<shutdownInitiated, shutdownMode, waited, drains, retriggered>>
configVars == <<MAX_SIZE_BYTES, RUN_ONCE>>

\* part_003:367-370: the module is loaded, the handlers are registered and
\* startup calls runOnce
Startup ==
    /\ invs = <<>>
    /\ tPc = "idle"
    /\ runOnce("startup")
    /\ UNCHANGED <<file, timer, exitTimer, exited, drainVars, configVars, pureVars>>

\* part_003:377-380: the interval fires
Tick ==
    /\ timer /\ ~exited
    /\ Len(invs) < MaxInvocations
    /\ runOnce("timer")
    /\ UNCHANGED <<file, timer, exitTimer, exited, drainVars, configVars, pureVars>>

\* readFile returns or rejects; loadLogs returns; part_003:313-318, 143-147
ReadReturn(i) ==
    /\ ~exited
    /\ invs[i].pc = "reading"
    /\ \E readOk \in BOOLEAN, b \in RecordBytes :
          invs' = [invs EXCEPT ![i] =
                      writeLogsWithRetries(@, loadLogs(file, readOk), i, b)]
    /\ UNCHANGED <<file, running, timer, exitTimer, exited, drainVars, configVars, pureVars>>

\* writeFile writes the text to the temporary file
TmpFill(i) ==
    /\ ~exited
    /\ invs[i].pc = "writing" /\ invs[i].tmp = 0
    /\ invs' = [invs EXCEPT ![i].tmp = jsonText(invs[i].toWrite).size]
    /\ UNCHANGED <<file, running, timer, exitTimer, exited, drainVars, configVars, pureVars>>

\* part_003:97-98: the awaited writeFile returns and rename is issued
WriteReturn(i) ==
    /\ ~exited
    /\ invs[i].pc = "writing"
    /\ writeFileAwaited(invs[i].tmp, jsonText(invs[i].toWrite).size)
    /\ invs' = [invs EXCEPT ![i].pc = "rename"]
    /\ UNCHANGED <<file, running, timer, exitTimer, exited, drainVars, configVars, pureVars>>

\* writeFile rejects, with none, some or all of the text written
WriteFail(i) ==
    /\ ~exited
    /\ invs[i].pc = "writing"
    /\ WriteError(i)
    /\ UNCHANGED <<file, drainVars, configVars, pureVars>>

\* rename(tmpPath, filePath) takes effect: the target now holds what the
\* temporary file held
RenameFs(i) ==
    /\ ~exited
    /\ invs[i].pc = "rename"
    /\ file' = [jsonText(invs[i].toWrite) EXCEPT !.written = invs[i].tmp]
    /\ invs' = [invs EXCEPT ![i].pc = "renamed", ![i].tmp = 0]
    /\ UNCHANGED <<running, timer, exitTimer, exited, drainVars, configVars, pureVars>>

\* part_003:98, 148, 319: rename returns, writeLogsWithRetries returns, runOnce
\* logs the save and ends
RenameReturn(i) ==
    /\ ~exited
    /\ invs[i].pc = "renamed"
    /\ Finish(i, [invs[i] EXCEPT !.outcome = "saved"])
    /\ UNCHANGED <<file, drainVars, configVars, pureVars>>

\* rename rejects; the target is untouched
RenameFail(i) ==
    /\ ~exited
    /\ invs[i].pc = "rename"
    /\ WriteError(i)
    /\ UNCHANGED <<file, drainVars, configVars, pureVars>>

\* part_003:157 and 145-147: the backoff timer fires and the loop goes round;
\* were the loop condition false here, the function would return normally
BackoffFire(i) ==
    /\ ~exited
    /\ invs[i].pc = "backoff"
    /\ IF loopCond(invs[i].attempt)
       THEN /\ invs' = [invs EXCEPT ![i].pc = "writing", ![i].tmp = 0,
                                    ![i].calls = @ + 1]
            /\ UNCHANGED <<running, timer, exitTimer, exited>>
       ELSE Finish(i, [invs[i] EXCEPT !.outcome = "saved"])
    /\ UNCHANGED <<file, drainVars, configVars, pureVars>>

\* gracefulShutdown, part_003:331-345, up to its first await; the name of the
\* event goes to the log only
gracefulShutdown(sig) ==
    IF ShutdownGuard
    THEN UNCHANGED <<shutdownInitiated, shutdownMode, waited, drains,
                     invs, running>>
    ELSE /\ shutdownInitiated' = TRUE
         /\ drains' = drains + 1
         /\ IF ~running
            THEN /\ shutdownMode' = "final"
                 /\ runOnce("shutdown")
                 /\ UNCHANGED waited
            ELSE /\ shutdownMode' = "wait"
                 /\ waited' = 0
                 /\ UNCHANGED <<invs, running>>

\* part_003:354-359: SIGINT, SIGTERM or an uncaught exception reaches its handler
Signal(sig) ==
    /\ ~exited
    /\ invs # <<>>
    /\ shutdownInitiated \/ running \/ Len(invs) < MaxInvocations
    /\ retriggered' = shutdownInitiated
    /\ gracefulShutdown(sig)
    /\ UNCHANGED <<file, timer, exitTimer, exited, configVars, pureVars>>

\* part_003:342-351: the 200 ms sleep ends, at least 200 ms later (later still
\* when the event loop was busy); the loop goes round or the function ends in
\* process.exit(0), and the exit listener of part_003:383 clears the interval
ShutdownPoll ==
    /\ ~exited
    /\ shutdownMode = "wait"
    /\ \E d \in {SHUTDOWN_POLL_MS, SHUTDOWN_TIMEOUT_MS} :
          /\ waited' = Min(waited + d, SHUTDOWN_TIMEOUT_MS)
          /\ exited' = ~(running /\ beforeDeadline(waited'))
          /\ timer' = (timer /\ ~exited')
    /\ UNCHANGED <<file, running, invs, exitTimer, shutdownInitiated,
                   shutdownMode, drains, retriggered, configVars, pureVars>>

\* part_003:387: the RUN_ONCE grace period of 500 ms ends in process.exit(0);
\* no interval was set in this mode (part_003:375), none is left
ExitTimerFire ==
    /\ ~exited
    /\ exitTimer
    /\ exited' = TRUE
    /\ timer' = FALSE
    /\ UNCHANGED <<file, running, invs, exitTimer, drainVars, configVars, pureVars>>

InitLogs ==
    { [j \in 1..Len(s) |-> GameRecord(j - Len(s), s[j])] :
         s \in UNION { [1..k -> RecordBytes] : k \in 0..MaxInitLen } }

InitFiles == {Absent, NonArray, Malformed} \cup { jsonText(l) : l \in InitLogs }

TrimIdle ==
    /\ tLogs = <<>>
    /\ tBudget = 0
    /\ tOut = <<>>
    /\ tPc = "idle"

Init ==
    /\ MAX_SIZE_BYTES \in Budgets
    /\ RUN_ONCE \in BOOLEAN
    /\ file \in InitFiles
    /\ running = FALSE
    /\ shutdownInitiated = FALSE
    /\ invs = <<>>
    /\ timer = FALSE
    /\ exitTimer = FALSE
    /\ shutdownMode = "none"
    /\ waited = 0
    /\ drains = 0
    /\ retriggered = FALSE
    /\ exited = FALSE
    /\ TrimIdle /\ RngIdle /\ GenIdle /\ ToolIdle

Triggers == {"SIGINT", "SIGTERM", "uncaughtException"}

Next ==
    \/ Startup
    \/ Tick
    \/ \E i \in 1..Len(invs) : ReadReturn(i)
    \/ \E i \in 1..Len(invs) : TmpFill(i)
    \/ \E i \in 1..Len(invs) : WriteReturn(i)
    \/ \E i \in 1..Len(invs) : WriteFail(i)
    \/ \E i \in 1..Len(invs) : RenameFs(i)
    \/ \E i \in 1..Len(invs) : RenameReturn(i)
    \/ \E i \in 1..Len(invs) : RenameFail(i)
    \/ \E i \in 1..Len(invs) : BackoffFire(i)
    \/ \E sig \in Triggers : Signal(sig)
    \/ ShutdownPoll
    \/ ExitTimerFire

Spec == Init /\ [][Next]_vars

\* The one fairness the drain's ending needs: the 200 ms timer of
\* part_003:343 fires while the process lives.  Nothing is assumed of the
\* file operations, which may never return.
FairSpec == Spec /\ WF_vars(ShutdownPoll)

(***************************************************************************)
(* LoadSpec: the two generators, each a process of its own, calling        *)
(* runOnce on one file (part_003:306-325, microchess.js:127-133).  A call  *)
(* is taken in the steps at which it touches the file: the existence test, *)
(* the read, and the save; for part_003 a save attempt changes the file at *)
(* its rename alone (the temporary file is its own), for microchess.js the *)
(* write in place first empties the file and then fills it.  A process has *)
(* one call at a time; a call of microchess.js after one whose save threw  *)
(* (microchess.js:127-133 has no try) is a call of the process restarted.  *)
(***************************************************************************)
\* writeLogs, microchess.js:58-61: the file after fs.writeFileSync has written
\* JSON.stringify of the trimmed logs in place, with no line end after it
writeLogs(logs) ==
    LET kept == trimLogsToFitSize(logs, MICROCHESS_JS_MAX_SIZE_BYTES)
    IN  [kind |-> "array", logs |-> JSONstringify(kept), size |-> byteLength(kept),
         written |-> byteLength(kept), eol |-> 0]

\* OUTPUT_FILE at first: the files of InitFiles, and a text cut short
\* (microchess.js:60 writes the store in place)
LoadInit ==
    /\ SchedIdle /\ TrimIdle /\ RngIdle /\ GenIdle
    /\ uploaded = <<>>
    /\ cmd = <<>>
    /\ asOneFile = FALSE
    /\ ldFile \in InitFiles \cup { [jsonText(l) EXCEPT !.written = 1] : l \in InitLogs }
    /\ ldOut = <<>>

\* runOnce of the generator `by` begins: fs.existsSync (part_003:105,
\* microchess.js:38); without a file loadLogs returns [] and the entry is pushed
LoadBegin(by) ==
    /\ Len(ldOut) < MaxLoads
    /\ \A c \in 1..Len(ldOut) : ldOut[c].by = by => ldOut[c].pc = "done"
    /\ \E b \in RecordBytes :
          LET entry == IF by = "microchess.js"
                       THEN [GameRecord(Len(ldOut) + 1, b)
                                EXCEPT !.lines = MICROCHESS_JS_RECORD_LINES,
                                       !.fields = [k \in DOMAIN @ \
                                           {"rng", "rng_version", "seed"} |-> @[k]]]
                       ELSE GameRecord(Len(ldOut) + 1, b)
          IN  ldOut' = Append(ldOut,
                  [by |-> by, entry |-> entry, readOk |-> TRUE, before |-> Absent,
                   logs |-> <<>>, warned |-> FALSE, attempt |-> 0,
                   detached |-> FALSE, saved |-> "no",
                   pc |-> IF ldFile.kind = "absent" THEN "saving" ELSE "reading",
                   existing |-> IF ldFile.kind = "absent"
                                THEN push(<<>>, entry) ELSE <<>>])
    /\ UNCHANGED <<ldFile, uploaded, cmd, asOneFile, schedVars, trimVars, rngVars,
                   genVars>>

\* the read of call c is answered, with the file as it is now or with an
\* error; loadLogs returns and the entry is pushed (part_003:106-115 and 317,
\* microchess.js:39-46 and 130)
LoadRead(c) ==
    /\ ldOut[c].pc = "reading"
    /\ \E readOk \in BOOLEAN :
          LET got == IF ldOut[c].by = "microchess.js"
                     THEN microchessLoadLogs(ldFile, readOk)
                     ELSE [logs |-> loadLogs(ldFile, readOk),
                           warned |-> loadLogsWarns(ldFile, readOk)]
          IN  ldOut' = [ldOut EXCEPT ![c] =
                  [@ EXCEPT !.pc = "saving", !.readOk = readOk,
                            !.before = ldFile, !.logs = got.logs,
                            !.warned = got.warned,
                            !.existing = push(got.logs, ldOut[c].entry)]]
    /\ UNCHANGED <<ldFile, uploaded, cmd, asOneFile, schedVars, trimVars, rngVars,
                   genVars>>

\* the save of call c.  part_003 (writeLogsWithRetries, 142-160): one attempt
\* of atomicWriteJson, which either renames the complete text onto the file,
\* leaving a write in place that is under way with a file of its own, or fails
\* and is tried again until MAX_WRITE_RETRIES attempts have failed.
\* microchess.js (writeLogs, 58-61): writeFileSync opens the file, emptying it,
\* or fails to
LoadSave(c) ==
    /\ ldOut[c].pc = "saving"
    /\ \E ok \in BOOLEAN :
          IF ldOut[c].by = "part_003"
          THEN IF ok
               THEN /\ ldFile' = jsonText(trimLogsToFitSize(ldOut[c].existing,
                                                            MAX_SIZE_BYTES))
                    /\ ldOut' = [k \in 1..Len(ldOut) |->
                            IF k = c
                            THEN [ldOut[k] EXCEPT !.pc = "done", !.saved = "written"]
                            ELSE IF ldOut[k].pc = "writing"
                            THEN [ldOut[k] EXCEPT !.detached = TRUE]
                            ELSE ldOut[k]]
               ELSE /\ ldFile' = ldFile
                    /\ ldOut' = [ldOut EXCEPT ![c] =
                            IF @.attempt + 1 >= MAX_WRITE_RETRIES
                            THEN [@ EXCEPT !.attempt = @ + 1, !.pc = "done",
                                           !.saved = "failed"]
                            ELSE [@ EXCEPT !.attempt = @ + 1]]
          ELSE IF ok
               THEN /\ ldFile' = [writeLogs(ldOut[c].existing) EXCEPT !.written = 0]
                    /\ ldOut' = [ldOut EXCEPT ![c].pc = "writing"]
               ELSE /\ ldFile' = ldFile
                    /\ ldOut' = [ldOut EXCEPT ![c].pc = "done", ![c].saved = "failed"]
    /\ UNCHANGED <<uploaded, cmd, asOneFile, schedVars, trimVars, rngVars, genVars>>

\* writeFileSync of call c writes its text into the file it opened: all of it,
\* or, failing, none, one byte, or all but the last byte
LoadWrite(c) ==
    /\ ldOut[c].pc = "writing"
    /\ LET text == writeLogs(ldOut[c].existing)
       IN  \E n \in {0, 1, text.size - 1, text.size} :
              /\ ldFile' = IF ldOut[c].detached THEN ldFile
                           ELSE [text EXCEPT !.written = n]
              /\ ldOut' = [ldOut EXCEPT ![c].pc = "done",
                                        ![c].saved = IF n = text.size THEN "written"
                                                     ELSE "torn"]
    /\ UNCHANGED <<uploaded, cmd, asOneFile, schedVars, trimVars, rngVars, genVars>>

LoadNext ==
    \/ \E by \in {"part_003", "microchess.js"} : LoadBegin(by)
    \/ \E c \in 1..Len(ldOut) : LoadRead(c) \/ LoadSave(c) \/ LoadWrite(c)

LoadSpec == LoadInit /\ [][LoadNext]_vars

(***************************************************************************)
(* 32-bit arithmetic.  A 32-bit pattern is held as two 16-bit halves, so   *)
(* that no intermediate value leaves the model checker's integers.  The    *)
(* bitwise operators of JavaScript work on the pattern of their operands   *)
(* modulo 2^32, whether the operand was a signed or an unsigned result.    *)
(***************************************************************************)
RECURSIVE Pow2(_)
Pow2(k) == IF k = 0 THEN 1 ELSE 2 * Pow2(k - 1)

U32(hi, lo) == [hi |-> hi, lo |-> lo]

\* F of the value of v, with v computed once, at this point
Let(v, F(_)) == CHOOSE r \in { F(x) : x \in {v} } : TRUE

\* always true; asking it makes the model checker compute v at this point, as
\* the program does at each round of a loop, instead of carrying it unevaluated
Computed(v) == v = v

\* a ^ b and a | b for numbers of n bits
RECURSIVE BitXor(_, _, _)
BitXor(a, b, n) ==
    IF n = 0 THEN 0
    ELSE ((a + b) % 2) + 2 * BitXor(a \div 2, b \div 2, n - 1)

RECURSIVE BitOr(_, _, _)
BitOr(a, b, n) ==
    IF n = 0 THEN 0
    ELSE (IF a % 2 = 1 \/ b % 2 = 1 THEN 1 ELSE 0)
            + 2 * BitOr(a \div 2, b \div 2, n - 1)

\* the two operators on 4-bit numbers, as tables
Xor4 == [a \in 0..15, b \in 0..15 |-> BitXor(a, b, 4)]
Or4 == [a \in 0..15, b \in 0..15 |-> BitOr(a, b, 4)]

\* a 16-bit number's four 4-bit digits combined digit by digit through table f
Digitwise(f, a, b) ==
    f[a % 16, b % 16]
      + 16 * f[(a \div 16) % 16, (b \div 16) % 16]
      + 256 * f[(a \div 256) % 16, (b \div 256) % 16]
      + 4096 * f[a \div 4096, b \div 4096]

\* x ^ y
Xor32(x, y) == U32(Digitwise(Xor4, x.hi, y.hi), Digitwise(Xor4, x.lo, y.lo))

\* x | y
Or32(x, y) == U32(Digitwise(Or4, x.hi, y.hi), Digitwise(Or4, x.lo, y.lo))

\* x >>> k, for 0 < k < 16
Shr32(x, k) ==
    U32(x.hi \div Pow2(k),
        (x.hi % Pow2(k)) * Pow2(16 - k) + x.lo \div Pow2(k))

\* x + y modulo 2^32
Add32(x, y) ==
    LET lo == x.lo + y.lo
    IN  U32((x.hi + y.hi + lo \div 65536) % 65536, lo % 65536)

\* the low and the high half of the product of two 16-bit numbers
MulLo16(a, b) ==
    (a * (b % 256) + ((a * (b \div 256)) % 256) * 256) % 65536

MulHi16(a, b) ==
    LET p1 == a * (b % 256)
        p2 == a * (b \div 256)
    IN  (p2 \div 256) + ((p2 % 256) * 256 + p1) \div 65536

\* Math.imul(x, y): the low 32 bits of the product
imul(x, y) ==
    U32((MulHi16(x.lo, y.lo) + MulLo16(x.hi, y.lo) + MulLo16(x.lo, y.hi)) % 65536,
        MulLo16(x.lo, y.lo))

\* A JavaScript Number holding a non-negative integer ov * 2^32 + hi * 2^16 + lo
\* (a double holds every integer below 2^53 exactly)
Num(ov, hi, lo) == [ov |-> ov, hi |-> hi, lo |-> lo]

\* t + c for a Number t and a 32-bit c: no wrapping
NumAdd(t, c) ==
    LET lo == t.lo + c.lo
        hi == t.hi + c.hi + lo \div 65536
    IN  Num(t.ov + hi \div 65536, hi % 65536, lo % 65536)

\* what a bitwise operator sees of a Number
ToUint32(t) == U32(t.hi, t.lo)

(***************************************************************************)
(* The seed hash and the fallback stream, part_003:167-185, and the replay *)
(* tool's copies of them, jsonbin_randomchess.js:136-154.  A string is the *)
(* sequence of its UTF-16 code units.                                      *)
(***************************************************************************)
\* 2166136261 = 0x811C9DC5
FNV_OFFSET == U32(33052, 40389)
\* 16777619 = 0x01000193
FNV_PRIME == U32(256, 403)
\* 0x6D2B79F5
GAMMA == U32(27947, 31221)

\* FNV-1 instead of FNV-1a: multiply, then xor
fnv1Step(h, c) == Xor32(imul(h, FNV_PRIME), U32(0, c))

\* part_003:170-171, h ^= str.charCodeAt(i); h = Math.imul(h, 16777619)
xfnv1aStep(h, c) == imul(Xor32(h, U32(0, c)), FNV_PRIME)

\* part_003:169-172, the loop; each round's h is computed before the next
\* round begins
RECURSIVE xfnv1aLoop(_, _)
xfnv1aLoop(h, str) ==
    IF str = <<>> THEN h
    ELSE LET h2 == xfnv1aStep(h, Head(str))
         IN  IF Computed(h2) THEN xfnv1aLoop(h2, Tail(str)) ELSE h2

xfnv1a(str) == xfnv1aLoop(FNV_OFFSET, str)

\* part_003:178, let t = seed >>> 0
mulberry32(seed) == Num(0, seed.hi, seed.lo)

\* part_003:180-183, one call of the closure: the new t and the numerator of
\* the value returned, ((r ^ (r >>> 14)) >>> 0) / 4294967296
mulberry32Call(t) ==
    Let(NumAdd(t, GAMMA), LAMBDA t2 :
    Let(ToUint32(t2), LAMBDA u :
    Let(imul(Xor32(u, Shr32(u, 15)), Or32(U32(0, 1), u)), LAMBDA r1 :
    Let(Xor32(r1, Add32(r1, imul(Xor32(r1, Shr32(r1, 7)), Or32(U32(0, 61), r1)))), LAMBDA r2 :
        [t |-> t2, out |-> Xor32(r2, Shr32(r2, 14))]))))

\* jsonbin_randomchess.js:136-143
RECURSIVE replayXfnv1aLoop(_, _)
replayXfnv1aLoop(h, str) ==
    IF str = <<>> THEN h
    ELSE LET h2 == imul(Xor32(h, U32(0, Head(str))), FNV_PRIME)
         IN  IF Computed(h2) THEN replayXfnv1aLoop(h2, Tail(str)) ELSE h2

replayXfnv1a(str) == replayXfnv1aLoop(FNV_OFFSET, str)

\* jsonbin_randomchess.js:146-153
replayMulberry32Call(t) ==
    Let(NumAdd(t, GAMMA), LAMBDA t2 :
    Let(ToUint32(t2), LAMBDA u :
    Let(imul(Xor32(u, Shr32(u, 15)), Or32(U32(0, 1), u)), LAMBDA r1 :
    Let(Xor32(r1, Add32(r1, imul(Xor32(r1, Shr32(r1, 7)), Or32(U32(0, 61), r1)))), LAMBDA r2 :
        [t |-> t2, out |-> Xor32(r2, Shr32(r2, 14))]))))

\* seedrandom(seedString), the optional third-party generator: its stream is a
\* function of the seed string alone and is not the fallback's.  The n-th
\* numerator is stood for by a hash of the seed string and n.
seedrandomCall(g) ==
    [g |-> [g EXCEPT !.n = @ + 1], out |-> xfnv1a(Append(g.key, g.n + 1))]

\* the stream seeded from the clock instead of the seed string
createRngFromClock(seedString, available) ==
    [name |-> "mulberry32", key |-> seedString, n |-> 0,
     t |-> mulberry32(U32(0, now % 65536))]

\* createRngFromSeed, part_003:201-213: the stream and its name
createRngFromSeed(seedString, available) ==
    IF available
    THEN [name |-> "seedrandom", key |-> seedString, n |-> 0, t |-> Num(0, 0, 0)]
    ELSE [name |-> "mulberry32", key |-> seedString, n |-> 0,
          t |-> mulberry32(xfnv1a(seedString))]

\* the replay's stream made without the seed string
replayCreateRngUnseeded(seedString, available) ==
    [name |-> IF available THEN "seedrandom" ELSE "mulberry32",
     key |-> <<>>, n |-> 0, t |-> mulberry32(FNV_OFFSET)]

\* createRngFromSeed, jsonbin_randomchess.js:156-162
replayCreateRngFromSeed(seedString, available) ==
    IF available
    THEN [name |-> "seedrandom", key |-> seedString, n |-> 0, t |-> Num(0, 0, 0)]
    ELSE [name |-> "mulberry32", key |-> seedString, n |-> 0,
          t |-> mulberry32(replayXfnv1a(seedString))]

\* rng(): the stream after the call and the numerator drawn
rng(g) ==
    IF g.name = "seedrandom" THEN seedrandomCall(g)
    ELSE Let(mulberry32Call(g.t), LAMBDA c :
             [g |-> [g EXCEPT !.t = c.t, !.n = @ + 1], out |-> c.out])

replayRng(g) ==
    IF g.name = "seedrandom" THEN seedrandomCall(g)
    ELSE Let(replayMulberry32Call(g.t), LAMBDA c :
             [g |-> [g EXCEPT !.t = c.t, !.n = @ + 1], out |-> c.out])

(***************************************************************************)
(* RngSpec: streams made from one seed string by createRngFromSeed, in the *)
(* generator's process or in the replay tool's, and drawn from in any      *)
(* order.                                                                  *)
(***************************************************************************)
\* "", "a", "b", "ab", "ba", the euro sign (one code unit above 255), "abc123"
RngSeeds ==
    { <<>>, <<97>>, <<98>>, <<97, 98>>, <<98, 97>>, <<8364>>,
      <<97, 98, 99, 49, 50, 51>> }

RngInit ==
    /\ SchedIdle /\ TrimIdle /\ GenIdle /\ ToolIdle
    /\ rngSeed \in RngSeeds
    /\ rngName \in {"mulberry32", "seedrandom"}
    /\ streams = <<>>

\* t hoisted out of the closure: one state for every stream
sharedState(ss, i, g) ==
    [j \in DOMAIN ss |-> [ss[j] EXCEPT !.g = g]]

\* part_003:178, let t: the state belongs to the closure one construction made
closureState(ss, i, g) ==
    [ss EXCEPT ![i].g = g]

\* createRngFromSeed(seed) is called
RngCreate ==
    /\ Len(streams) < MaxStreams
    /\ \E by \in {"generator", "replay"} :
          streams' = Append(streams,
              [by |-> by, outs |-> <<>>,
               g |-> IF by = "generator"
                     THEN createRngFromSeed(rngSeed, rngName = "seedrandom")
                     ELSE replayCreateRngFromSeed(rngSeed, rngName = "seedrandom")])
    /\ UNCHANGED <<rngSeed, rngName, schedVars, trimVars, genVars, toolVars>>

\* rng() is called on stream i
RngDraw(i) ==
    /\ Len(streams[i].outs) < MaxDraws
    /\ LET c == IF streams[i].by = "generator"
                THEN rng(streams[i].g) ELSE replayRng(streams[i].g)
       IN  streams' = [closureState(streams, i, c.g) EXCEPT
                          ![i].outs = Append(@, c.out)]
    /\ UNCHANGED <<rngSeed, rngName, schedVars, trimVars, genVars, toolVars>>

RngNext ==
    \/ RngCreate
    \/ \E i \in 1..Len(streams) : RngDraw(i)

RngSpec == RngInit /\ [][RngNext]_vars

(***************************************************************************)
(* The rules provider, ../dist/cjs/chess.js (part_003:55), which the       *)
(* generator and the replay tool use through new Chess(), isGameOver(),    *)
(* moves(), move(), turn(), fen() and the classification predicates.  It   *)
(* is stood for by a small game: seven positions, the moves between them,  *)
(* and one ending position whose nature is the provider's variant.  The    *)
(* variants "silentEmpty" and "silentMissing" are providers that return no *)
(* moves (an empty list, no list) without classifying the position.        *)
(***************************************************************************)
Engines ==
    {"checkmate", "stalemate", "threefold", "insufficient", "draw",
     "silentEmpty", "silentMissing"}

\* new Chess(): the starting position, white to move
newChess == [node |-> 0, turn |-> "w"]

MoveList(l) == [missing |-> FALSE, list |-> l]
Missing == [missing |-> TRUE, list |-> <<>>]

\* the moves out of a position with the node each leads to
Edges(e, node) ==
    CASE node = 0 -> << <<"e4", 1>>, <<"d4", 2>>, <<"Nf3", 3>> >>
      [] node = 1 -> << <<"e5", 4>>, <<"c5", 5>> >>
      [] node = 2 -> << <<"d5", 5>>, <<"Nf6", 6>> >>
      [] node = 3 -> << <<"d5", 6>> >>
      [] node = 5 -> << <<"Qh5", 4>>, <<"Nc3", 6>> >>
      [] node = 6 -> << <<"Nc6", 4>>, <<"a6", 5>>, <<"h6", 0>> >>
      [] OTHER -> IF e \in {"threefold", "insufficient", "draw"}
                  THEN << <<"Kg1", 0>>, <<"Kh1", 6>> >>
                  ELSE << >>

\* chess.moves()
moves(e, pos) ==
    IF pos.node = 4 /\ e = "silentMissing" THEN Missing
    ELSE MoveList([k \in 1..Len(Edges(e, pos.node)) |-> Edges(e, pos.node)[k][1]])

\* chess.move(m), for a legal m
move(e, pos, m) ==
    LET k == CHOOSE k \in 1..Len(Edges(e, pos.node)) : Edges(e, pos.node)[k][1] = m
    IN  [node |-> Edges(e, pos.node)[k][2],
         turn |-> IF pos.turn = "w" THEN "b" ELSE "w"]

\* the provider's classification of a position
classOf(e, pos) ==
    IF pos.node = 4 /\ e \notin {"silentEmpty", "silentMissing"} THEN e ELSE "none"

isCheckmate(e, pos) == classOf(e, pos) = "checkmate"
isStalemate(e, pos) == classOf(e, pos) = "stalemate"
isThreefoldRepetition(e, pos) == classOf(e, pos) = "threefold"
isInsufficientMaterial(e, pos) == classOf(e, pos) = "insufficient"
isDraw(e, pos) == classOf(e, pos) \in {"stalemate", "threefold", "insufficient", "draw"}
isGameOver(e, pos) == isCheckmate(e, pos) \/ isDraw(e, pos)

\* chess.fen(): the position with the side to move
fen(pos) == <<pos.node, pos.turn>>

(***************************************************************************)
(* generateRandomChessGame, part_003:219-299.                              *)
(***************************************************************************)
\* Math.floor(rng() * legalMoves.length), part_003:234: the product of the
\* numerator by the length is below 2^53, so the double is exact
pickIndex(out, len) ==
    (out.hi * len + (out.lo * len) \div 65536) \div 65536

\* the older test, legalMoves.length === 0 alone (microchess.js:70)
lengthIsZero(legalMoves) ==
    ~legalMoves.missing /\ Len(legalMoves.list) = 0

\* part_003:233, if (!legalMoves || legalMoves.length === 0) break
noMoves(legalMoves) ==
    legalMoves.missing \/ Len(legalMoves.list) = 0

\* the cap tested off by one (ply <= MAX_MOVES)
plyWithinCap(ply, cap) == ply <= cap

\* part_003:231, ply < MAX_MOVES
plyBelowCap(ply, cap) == ply < cap

\* part_003:231-238, the loop from one of its iterations on; fault stands for
\* the TypeError of reading .length of a missing list
RECURSIVE playLoop(_, _, _, _, _, _)
playLoop(e, pos, g, ms, ply, cap) ==
    IF ~(~isGameOver(e, pos) /\ plyBelowCap(ply, cap))
    THEN [pos |-> pos, g |-> g, moves |-> ms, ply |-> ply, fault |-> FALSE]
    ELSE Let(moves(e, pos), LAMBDA legalMoves :
         IF noMoves(legalMoves)
         THEN [pos |-> pos, g |-> g, moves |-> ms, ply |-> ply, fault |-> FALSE]
         ELSE IF legalMoves.missing
         THEN [pos |-> pos, g |-> g, moves |-> ms, ply |-> ply, fault |-> TRUE]
         ELSE Let(rng(g), LAMBDA c :
              Let(legalMoves.list[pickIndex(c.out, Len(legalMoves.list)) + 1], LAMBDA m :
              Let(move(e, pos, m), LAMBDA next :
                  playLoop(e, next, c.g, Append(ms, m), ply + 1, cap)))))

\* part_003:242-247 and jsonbin_randomchess.js:164-171: the numbered move text,
\* token by token: "1." e4 e5 "2." ...
RECURSIVE buildPgnFromMoves(_, _)
buildPgnFromMoves(ms, i) ==
    IF i > Len(ms) THEN <<>>
    ELSE (IF (i - 1) % 2 = 0
          THEN <<[num |-> (i - 1) \div 2 + 1, san |-> ""]>> ELSE <<>>)
         \o <<[num |-> 0, san |-> ms[i]]>> \o buildPgnFromMoves(ms, i + 1)

\* the winner named the wrong way round
mateResultSwapped(turn) == IF turn = "w" THEN "1-0" ELSE "0-1"

\* part_003:254, chess.turn() === 'w' ? '0-1' : '1-0'
mateResult(turn) == IF turn = "w" THEN "0-1" ELSE "1-0"

\* part_003:250-272: result and reason
resultOf(e, pos) ==
    IF isCheckmate(e, pos) THEN <<mateResult(pos.turn), "Checkmate">>
    ELSE IF isStalemate(e, pos) THEN <<"1/2-1/2", "Draw by stalemate">>
    ELSE IF isThreefoldRepetition(e, pos) THEN <<"1/2-1/2", "Draw by threefold repetition">>
    ELSE IF isInsufficientMaterial(e, pos) THEN <<"1/2-1/2", "Draw by insufficient material">>
    ELSE IF isDraw(e, pos) THEN <<"1/2-1/2", "Draw">>
    ELSE <<"*", "">>

\* toISOString().slice(0, 10): the UTC day of an instant in ms
isoDate(ms) == ms \div MS_PER_DAY

\* part_003:274-282 and jsonbin_randomchess.js:221: headers, a blank line, the
\* move text, a space and the result
pgnText(headers, pgnMoves, result) ==
    [headers |-> headers, moves |-> pgnMoves, result |-> result]

\* the entry given the argument for its seed, empty when none was supplied
seedFieldGiven(seedString, seed) == seedString

\* part_003:297, seed: the seed the stream was made from
seedField(seedString, seed) == seed

\* generateRandomChessGame(seedString), with the hex string crypto.randomBytes
\* gives and the clock at its two readings.  moves, draws and fault are what
\* the call did, beside the entry it returns.
generateRandomChessGame(seedString, random, startTime, endTime) ==
    Let(IF Len(seedString) > 0 THEN seedString ELSE random, LAMBDA seed :
    Let(createRngFromSeed(seed, seedrandomAvailable), LAMBDA made :
    Let(playLoop(engine, newChess, made, <<>>, 0, MAX_MOVES), LAMBDA end :
    Let(buildPgnFromMoves(end.moves, 1), LAMBDA pgnMoves :
    Let(resultOf(engine, end.pos), LAMBDA res :
    Let([Event |-> "Random Game", Site |-> "microchess",
         Date |-> isoDate(startTime), Result |-> res[1],
         PlyCount |-> Len(end.moves)], LAMBDA pgnHeaders :
        [entry |-> [process |-> "microchess", message |-> pgnMoves,
                    status |-> "generated", timestamp |-> endTime,
                    move_count |-> Len(end.moves), result |-> res[1],
                    reason |-> res[2], final_fen |-> fen(end.pos),
                    pgn |-> pgnText(pgnHeaders, pgnMoves, res[1]),
                    rng |-> made.name,
                    rng_version |-> IF made.name = "seedrandom"
                                       /\ seedrandomVersion \notin {"", "null"}
                                    THEN seedrandomVersion ELSE "null",
                    seed |-> seedField(seedString, seed)],
         moves |-> end.moves, draws |-> end.g.n, ply |-> end.ply,
         stopped |-> end.pos, fault |-> end.fault]))))))

(***************************************************************************)
(* The replay tool, jsonbin_randomchess.js:97-324 (its header names it     *)
(* replay.js), run with --index.                                           *)
(***************************************************************************)
\* jsonbin_randomchess.js:187-194, the loop of simulateGameWithSeed
RECURSIVE simulateLoop(_, _, _, _, _, _)
simulateLoop(e, pos, g, ms, ply, maxPlies) ==
    IF ~(~isGameOver(e, pos) /\ ply < maxPlies)
    THEN [pos |-> pos, moves |-> ms]
    ELSE Let(moves(e, pos), LAMBDA legalMoves :
         IF legalMoves.missing \/ Len(legalMoves.list) = 0
         THEN [pos |-> pos, moves |-> ms]
         ELSE Let(replayRng(g), LAMBDA c :
              Let(legalMoves.list[pickIndex(c.out, Len(legalMoves.list)) + 1], LAMBDA m :
              Let(move(e, pos, m), LAMBDA next :
                  simulateLoop(e, next, c.g, Append(ms, m), ply + 1, maxPlies)))))

\* jsonbin_randomchess.js:182-204
simulateGameWithSeed(seed, maxPlies) ==
    Let(replayCreateRngFromSeed(seed, replaySeedrandomAvailable), LAMBDA made :
    Let(simulateLoop(engine, newChess, made, <<>>, 0, maxPlies), LAMBDA end :
        [rng |-> made.name, seed |-> seed, moves |-> end.moves,
         pgnMoves |-> buildPgnFromMoves(end.moves, 1),
         final_fen |-> fen(end.pos), move_count |-> Len(end.moves)]))

\* jsonbin_randomchess.js:221-222: the stored transcript against the stored
\* headers with the simulated move text and the stored result; the stored
\* final position against the simulated one
printComparison(stored, simulated) ==
    [pgnMatch |-> stored.pgn = pgnText(stored.pgn.headers, simulated.pgnMoves,
                                       stored.result),
     fenMatch |-> stored.final_fen = simulated.final_fen]

\* the index counted from the oldest record
entryFromOldest(length, indexArg) == indexArg + 1

\* jsonbin_randomchess.js:291, arr[arr.length - 1 - indexArg], as a position
\* from 1 in the sequence
entryPosition(length, indexArg) == (length - 1 - indexArg) + 1

\* a run that ended before any replay
NoReplay(indexArg, code) ==
    [index |-> indexArg, selected |-> 0, exit |-> code, ran |-> FALSE,
     rng |-> "none", seed |-> <<>>, moves |-> <<>>,
     pgnMatch |-> FALSE, fenMatch |-> FALSE]

\* main, jsonbin_randomchess.js:284-316, with --index indexArg on the array arr
main(arr, indexArg) ==
    LET at == entryPosition(Len(arr), indexArg)
    IN  IF at \notin 1..Len(arr) THEN NoReplay(indexArg, 3)
        ELSE IF Len(arr[at].seed) = 0 THEN NoReplay(indexArg, 1)
        ELSE Let(arr[at], LAMBDA storedEntry :
             Let(simulateGameWithSeed(storedEntry.seed, storedEntry.move_count),
                 LAMBDA simulated :
             Let(printComparison(storedEntry, simulated), LAMBDA cmp :
                 [index |-> indexArg, selected |-> at, exit |-> 0, ran |-> TRUE,
                  rng |-> simulated.rng, seed |-> simulated.seed,
                  moves |-> simulated.moves,
                  pgnMatch |-> cmp.pgnMatch, fenMatch |-> cmp.fenMatch])))

(***************************************************************************)
(* GenSpec: the generator called up to MaxStore times, its entries kept in *)
(* call order, and then one run of the replay tool on them.                *)
(***************************************************************************)
\* MICROCHESS_SEED: absent, "b", "abc123"
EnvSeeds == { <<>>, <<98>>, <<97, 98, 99, 49, 50, 51>> }

\* crypto.randomBytes(8).toString('hex'): "00000000000000aa", "3c3c3c3c3c3c3c3c"
RandomSeeds ==
    { <<48, 48, 48, 48, 48, 48, 48, 48, 48, 48, 48, 48, 48, 48, 97, 97>>,
      <<51, 99, 51, 99, 51, 99, 51, 99, 51, 99, 51, 99, 51, 99, 51, 99>> }

\* the instants the clock is read at: a start, and a day and 1 ms later
Instants == {0, MS_PER_DAY + 1}

IndexArgs == (0 - 1)..(MaxStore + 1)

GenInit ==
    /\ SchedIdle /\ TrimIdle /\ RngIdle /\ ToolIdle
    /\ engine \in Engines
    /\ MAX_MOVES \in 1..MaxPly
    /\ seedrandomAvailable \in BOOLEAN
    \* the version read, "" for an empty one, "null" when the require throws;
    \* the three are tried with one provider, a readable one with the others
    /\ seedrandomVersion \in IF ~seedrandomAvailable THEN {"null"}
                             ELSE IF engine = "checkmate" THEN {"3.0.5", "", "null"}
                             ELSE {"3.0.5"}
    /\ replaySeedrandomAvailable \in BOOLEAN
    /\ now = 0
    /\ store = <<>>
    /\ replay = <<>>
    /\ asked = <<>>

genConfig == <<engine, MAX_MOVES, seedrandomAvailable, seedrandomVersion,
               replaySeedrandomAvailable>>

\* part_003:315-316: one call of generateRandomChessGame(envSeed)
Generate ==
    /\ replay = <<>>
    /\ Len(store) < MaxStore
    /\ \E seedString \in EnvSeeds, endTime \in {t \in Instants : t >= now} :
       \E random \in IF seedString = <<>> THEN RandomSeeds ELSE {<<>>} :
          /\ store' = Append(store,
                  generateRandomChessGame(seedString, random, now, endTime))
          /\ asked' = Append(asked, [seedString |-> seedString, random |-> random])
          /\ now' = endTime
    /\ UNCHANGED <<replay, genConfig, schedVars, trimVars, rngVars, toolVars>>

\* node replay.js --index n, on the entries generated so far
Replay(indexArg) ==
    /\ replay = <<>> /\ ~asOneFile
    /\ replay' = <<main([k \in 1..Len(store) |-> store[k].entry], indexArg)>>
    /\ UNCHANGED <<store, now, asked, genConfig, schedVars, trimVars, rngVars, toolVars>>

GenNext ==
    \/ Generate
    \/ \E indexArg \in IndexArgs : Replay(indexArg)

GenSpec == GenInit /\ [][GenNext]_vars

(***************************************************************************)
(* The command line of the replay tool and the upload task.  Strings are   *)
(* sequences of character codes, so that path.resolve, startsWith and       *)
(* parseInt are computed on the text.                                       *)
(***************************************************************************)
\* process.argv words the loop of jsonbin_randomchess.js:243-250 tests for
Flags ==
    [seed  |-> <<45, 45, 115, 101, 101, 100>>,
     index |-> <<45, 45, 105, 110, 100, 101, 120>>,
     file  |-> <<45, 45, 102, 105, 108, 101>>,
     help  |-> <<45, 45, 104, 101, 108, 112>>,
     h     |-> <<45, 104>>]

\* String.prototype.startsWith
startsWith(str, prefix) ==
    Len(prefix) <= Len(str) /\ SubSeq(str, 1, Len(prefix)) = prefix

\* the segments of a path between its separators
RECURSIVE splitPath(_, _, _)
splitPath(str, cur, acc) ==
    IF str = <<>> THEN Append(acc, cur)
    ELSE IF Head(str) = SEP THEN splitPath(Tail(str), <<>>, Append(acc, cur))
    ELSE splitPath(Tail(str), Append(cur, Head(str)), acc)

\* path normalisation: empty and "." segments dropped, ".." removes the
\* segment before it (at the root it is dropped)
RECURSIVE normalize(_, _)
normalize(segs, acc) ==
    IF segs = <<>> THEN acc
    ELSE IF Head(segs) \in {<<>>, <<DOT>>} THEN normalize(Tail(segs), acc)
    ELSE IF Head(segs) = <<DOT, DOT>>
    THEN normalize(Tail(segs),
                   IF acc = <<>> THEN acc ELSE SubSeq(acc, 1, Len(acc) - 1))
    ELSE normalize(Tail(segs), Append(acc, Head(segs)))

\* the absolute path of the segments: "/" alone for none
RECURSIVE joinPath(_)
joinPath(segs) ==
    IF segs = <<>> THEN <<>>
    ELSE <<SEP>> \o Head(segs) \o joinPath(Tail(segs))

\* path.resolve(p) in the working directory cwd (POSIX)
resolve(cwd, p) ==
    Let(normalize(splitPath(IF startsWith(p, <<SEP>>) THEN p
                            ELSE cwd \o <<SEP>> \o p, <<>>, <<>>), <<>>),
        LAMBDA segs : IF segs = <<>> THEN <<SEP>> ELSE joinPath(segs))

\* __dirname of the tool: "/m"
dirname == <<SEP, 109>>

\* jsonbin_randomchess.js:252
BASE_DIR == resolve(<<SEP>>, dirname)

\* jsonbin_randomchess.js:120, path.join(__dirname, 'randomchess.json')
DEFAULT_OUTPUT ==
    resolve(dirname, <<114, 97, 110, 100, 111, 109, 99, 104, 101, 115, 115,
                       DOT, 106, 115, 111, 110>>)

\* the test without the separator
startsWithBase(filePath) == startsWith(filePath, BASE_DIR)

\* jsonbin_randomchess.js:256, filePath.startsWith(BASE_DIR + path.sep)
insideBase(filePath) == startsWith(filePath, BASE_DIR \o <<SEP>>)

\* the decimal digits a string begins with, as a number
RECURSIVE digitsValue(_, _, _)
digitsValue(str, n, seen) ==
    IF str # <<>> /\ Head(str) \in 48..57
    THEN digitsValue(Tail(str), n * 10 + (Head(str) - 48), seen + 1)
    ELSE [n |-> n, seen |-> seen]

\* the string without the white space and line terminators it begins with
RECURSIVE skipWhiteSpace(_)
skipWhiteSpace(str) ==
    IF str # <<>> /\ Head(str) \in ({9, 10, 11, 12, 13, 32, 160, 5760, 8232, 8233,
                                     8239, 8287, 12288, 65279} \cup (8192..8202))
    THEN skipWhiteSpace(Tail(str))
    ELSE str

\* parseInt(str, 10): leading white space skipped, an optional sign, then
\* digits; NaN without a digit
parseInt(str) ==
    LET s == skipWhiteSpace(str)
        signed == s # <<>> /\ Head(s) \in {43, 45}
        d == digitsValue(IF signed THEN Tail(s) ELSE s, 0, 0)
    IN  [null |-> FALSE, nan |-> d.seen = 0,
         n |-> IF signed /\ Head(s) = 45 THEN 0 - d.n ELSE d.n]

\* jsonbin_randomchess.js:239-241 and 243-250: the argument loop; exit is -1
\* while no usageAndExit was reached, "" and a missing word are both falsy
RECURSIVE parseArgs(_, _, _)
parseArgs(argv, i, acc) ==
    IF i > Len(argv) THEN acc
    ELSE LET a == argv[i]
             value == IF i + 1 <= Len(argv) THEN argv[i + 1] ELSE <<>>
         IN  IF a = Flags.seed /\ value # <<>>
             THEN parseArgs(argv, i + 2, [acc EXCEPT !.seedArg = value])
             ELSE IF a = Flags.index /\ value # <<>>
             THEN parseArgs(argv, i + 2, [acc EXCEPT !.indexArg = parseInt(value)])
             ELSE IF a = Flags.file /\ value # <<>>
             THEN parseArgs(argv, i + 2, [acc EXCEPT !.fileArg = value])
             ELSE IF a \in {Flags.help, Flags.h}
             THEN [acc EXCEPT !.exit = 0]
             ELSE [acc EXCEPT !.exit = 1]

\* jsonbin_randomchess.js:173-180 on a file that is absent, is not JSON, holds
\* a JSON value that is no array, or holds the array arr
readJsonFile(disk, arr) ==
    [threw |-> disk \in {"absent", "malformed"},
     isArray |-> disk = "array",
     arr |-> IF disk = "array" THEN arr ELSE <<>>]

\* how a run of the command ended: what it was given (the options, the state
\* of the file, the number of stored entries), its exit code, the number of
\* files it read, and what it replayed
CommandEnd(a, filePath, mode, code, reads, run) ==
    [help |-> a.exit = 0, disk |-> a.disk, stored |-> a.stored,
     seedArg |-> a.seedArg, indexArg |-> a.indexArg, fileArg |-> a.fileArg,
     filePath |-> filePath, mode |-> mode, exit |-> code, reads |-> reads,
     ran |-> run.ran, pgnMatch |-> run.pgnMatch, fenMatch |-> run.fenMatch,
     compared |-> run.selected # 0, moves |-> run.moves]

\* main, jsonbin_randomchess.js:237-324, run as node replay.js argv in the
\* working directory cwd with the named file in the state disk
mainArgv(argv, cwd, disk, arr) ==
    Let(parseArgs(argv, 1, [seedArg |-> <<>>, fileArg |-> <<>>, exit |-> 0 - 1,
                            indexArg |-> [null |-> TRUE, nan |-> FALSE, n |-> 0],
                            disk |-> disk, stored |-> Len(arr)]),
        LAMBDA a :
    IF a.exit # 0 - 1
    THEN CommandEnd(a, <<>>, "usage", a.exit, 0, NoReplay(0, a.exit))
    ELSE
    Let(IF a.fileArg # <<>> THEN resolve(cwd, a.fileArg) ELSE DEFAULT_OUTPUT,
        LAMBDA filePath :
    IF ~insideBase(filePath)
    THEN CommandEnd(a, filePath, "rejected", 1, 0, NoReplay(0, 1))
    ELSE IF a.seedArg = <<>> /\ a.indexArg.null
    THEN Let(readJsonFile(disk, arr), LAMBDA got :
         IF got.threw \/ ~got.isArray
         THEN CommandEnd(a, filePath, "list", 2, 1, NoReplay(0, 2))
         ELSE CommandEnd(a, filePath, "list", 0, 1, NoReplay(0, 0)))
    ELSE IF ~a.indexArg.null
    THEN Let(readJsonFile(disk, arr), LAMBDA got :
         IF got.threw \/ ~got.isArray \/ a.indexArg.nan
         THEN CommandEnd(a, filePath, "index", 3, 1, NoReplay(0, 3))
         ELSE Let(main(got.arr, a.indexArg.n), LAMBDA run :
                  CommandEnd(a, filePath, "index", run.exit, 1, run)))
    ELSE Let(simulateGameWithSeed(a.seedArg, MAX_MOVES), LAMBDA simulated :
             CommandEnd(a, filePath, "seed", 0, 0,
                   [NoReplay(0, 0) EXCEPT !.ran = TRUE,
                                          !.moves = simulated.moves]))))

\* a JavaScript value v = [t, s, n] (a string s, a number n, a boolean n = 1
\* for true, null or undefined) converts to true
truthy(v) ==
    CASE v.t = "string" -> v.s # <<>>
      [] v.t = "number" -> v.n # 0
      [] v.t = "boolean" -> v.n = 1
      [] OTHER -> FALSE

\* jsonbin_randomchess.js:60-67: the filter over data with the set seen of
\* the game.fen values met so far; a game whose fen is missing or not truthy
\* is kept and leaves seen as it is
RECURSIVE dedupe(_, _)
dedupe(data, seen) ==
    IF data = <<>> THEN <<>>
    ELSE LET game == Head(data)
             key == IF "fen" \in DOMAIN game THEN game["fen"]
                    ELSE [t |-> "undefined", s |-> <<>>, n |-> 0]
         IN  IF ~truthy(key) THEN <<game>> \o dedupe(Tail(data), seen)
             ELSE IF key \in seen THEN dedupe(Tail(data), seen)
             ELSE <<game>> \o dedupe(Tail(data), seen \cup {key})

\* uploadRandomChess, jsonbin_randomchess.js:41-78: the request body, when the
\* file exists, parses and holds an array (disk "array")
uploadRandomChess(disk, arr) ==
    [sent |-> disk = "array",
     data |-> IF disk = "array" THEN arr ELSE <<>>,
     body |-> IF disk = "array" THEN dedupe(arr, {}) ELSE <<>>]

(***************************************************************************)
(* ToolSpec: the generator called up to MaxStore times, then one run of    *)
(* the replay command or one run of the upload task on its entries.        *)
(* src/microchess/jsonbin_randomchess.js holds two scripts one after the   *)
(* other, the uploader (lines 1-95) and replay.js (from line 97).  With    *)
(* asOneFile the file is run as it is, and node rejects it when loading;   *)
(* without, each script is run from a file of its own, as its header says. *)
(***************************************************************************)
\* "0", "1", "7", "-1", "x", "1x", " 1", "\t0"
IndexWords ==
    { <<48>>, <<49>>, <<55>>, <<45, 49>>, <<120>>, <<49, 120>>, <<32, 49>>,
      <<9, 48>> }

\* "r", "/m/r", "/m/s/../r", "/m/../e", "/mx/r", "../m/r", "/m", "../../etc"
FileWords ==
    { <<114>>, <<SEP, 109, SEP, 114>>,
      <<SEP, 109, SEP, 115, SEP, DOT, DOT, SEP, 114>>,
      <<SEP, 109, SEP, DOT, DOT, SEP, 101>>,
      <<SEP, 109, 120, SEP, 114>>,
      <<DOT, DOT, SEP, 109, SEP, 114>>,
      <<SEP, 109>>,
      <<DOT, DOT, SEP, DOT, DOT, SEP, 101, 116, 99>> }

\* the command lines tried: none, one option, --file before another option,
\* help, and malformed ones
Argvs ==
    {<<>>, <<Flags.help>>, <<Flags.h>>, <<Flags.seed>>, <<Flags.index, <<>>>>,
     <<<<120>>>>, <<Flags.seed, <<98>>, Flags.index, <<48>>>>}
    \cup { <<Flags.seed, s>> : s \in EnvSeeds \ {<<>>} }
    \cup { <<Flags.index, n>> : n \in IndexWords }
    \cup { <<Flags.file, f>> : f \in FileWords }
    \cup { <<Flags.file, f, Flags.seed, <<98>>>> : f \in FileWords }
    \cup { <<Flags.file, f, Flags.index, <<48>>>> : f \in FileWords }
    \cup { <<Flags.file, f, Flags.help>> : f \in FileWords }

DiskStates == {"absent", "malformed", "nonarray", "array"}

\* stores not written by the generator, of records {fen, id}: fen "" twice;
\* fen 0 twice; fen "A", "", "A", ""; fen 1, 1, null, null; fen "A", "B", "A"
ForeignStores ==
    LET str(s) == [t |-> "string", s |-> s, n |-> 0]
        num(n) == [t |-> "number", s |-> <<>>, n |-> n]
        null == [t |-> "null", s |-> <<>>, n |-> 0]
        rec(v, i) == [fen |-> v, id |-> i]
    IN  { <<rec(str(<<>>), 1), rec(str(<<>>), 2)>>,
          <<rec(num(0), 1), rec(num(0), 2)>>,
          <<rec(str(<<65>>), 1), rec(str(<<>>), 2), rec(str(<<65>>), 3),
            rec(str(<<>>), 4)>>,
          <<rec(num(1), 1), rec(num(1), 2), rec(null, 3), rec(null, 4)>>,
          <<rec(str(<<65>>), 1), rec(str(<<66>>), 2), rec(str(<<65>>), 3)>> }

ToolInit ==
    /\ SchedIdle /\ TrimIdle /\ RngIdle
    /\ uploaded = <<>> /\ cmd = <<>> /\ ldFile = Absent /\ ldOut = <<>>
    /\ engine \in {"checkmate", "draw"}
    /\ MAX_MOVES = MaxPly
    /\ seedrandomAvailable = FALSE
    /\ seedrandomVersion = "null"
    /\ replaySeedrandomAvailable \in BOOLEAN
    /\ asOneFile \in BOOLEAN
    /\ now = 0
    /\ store = <<>>
    /\ replay = <<>>
    /\ asked = <<>>

\* node replay.js argv in the working directory "/m" or "/w", on the entries
\* generated so far.  Run as the one
\* file of src/, the script is rejected when it is loaded (line 114 declares
\* path again, line 115 fs): node exits with code 1 and no statement has run
Command ==
    /\ cmd = <<>> /\ uploaded = <<>>
    /\ \E argv \in Argvs, cwd \in {<<SEP, 109>>, <<SEP, 119>>}, disk \in DiskStates :
          cmd' = <<IF asOneFile
                   THEN CommandEnd([seedArg |-> <<>>, fileArg |-> <<>>,
                                    exit |-> 0 - 1, disk |-> disk,
                                    stored |-> Len(store),
                                    indexArg |-> [null |-> TRUE, nan |-> FALSE,
                                                  n |-> 0]],
                                   <<>>, "unloaded", 1, 0, NoReplay(0, 1))
                   ELSE mainArgv(argv, cwd, disk,
                                 [k \in 1..Len(store) |-> store[k].entry])>>
    /\ UNCHANGED <<uploaded, asOneFile, ldFile, ldOut, schedVars, trimVars, rngVars,
                   genVars>>

\* one tick of the upload task, on the entries generated so far or, before
\* any was generated, on a store written by something else; run as the one
\* file of src/ the script is rejected when loaded and sends nothing
Upload ==
    /\ cmd = <<>> /\ uploaded = <<>>
    /\ \E disk \in DiskStates :
       \E foreign \in IF store = <<>> /\ disk = "array"
                      THEN ForeignStores \cup {<<>>} ELSE {<<>>} :
          uploaded' = <<uploadRandomChess(IF asOneFile THEN "unloaded" ELSE disk,
                            IF foreign # <<>> THEN foreign
                            ELSE [k \in 1..Len(store) |-> store[k].entry])>>
    /\ UNCHANGED <<cmd, asOneFile, ldFile, ldOut, schedVars, trimVars, rngVars,
                   genVars>>

ToolNext ==
    \/ cmd = <<>> /\ uploaded = <<>> /\ Generate
    \/ Command
    \/ Upload

ToolSpec == ToolInit /\ [][ToolNext]_vars

(***************************************************************************)
(* Properties.                                                             *)
(***************************************************************************)
Calls == 1..Len(invs)

\* the runOnce calls between running = true and the finally block
InFlight == { i \in Calls : invs[i].pc \in {"reading", "writing", "rename", "renamed", "backoff"} }

\* the runOnce calls made by gracefulShutdown
DrainRuns == { i \in Calls : invs[i].by = "shutdown" }

\* invocation i ends in this step
Ends(i) == invs[i].pc \in {"reading", "writing", "rename", "renamed", "backoff"} /\ invs'[i].pc = "done"

\* C1: at most one generation/persist cycle is in flight at any time; a runOnce
\* call made while one is in flight is recorded as skipped with nothing loaded,
\* generated or written, changes nothing else, and is never taken up later.
C1_SingleCycle ==
    /\ [](Cardinality(InFlight) <= 1 /\ (running <=> InFlight # {}))
    /\ [][ /\ (Len(invs') > Len(invs) /\ InFlight # {}) =>
                /\ invs' = Append(invs, SkippedInv(invs'[Len(invs')].by))
                /\ UNCHANGED <<file, running, exited, timer, exitTimer>>
           /\ \A i \in Calls : invs[i].pc = "skipped" => invs'[i] = invs[i] ]_vars

\* a tick was skipped while a cycle is in flight
C1_Witness ==
    \E i \in Calls, j \in InFlight : invs[i].pc = "skipped" /\ j < i

\* C2: the store path always holds a complete text: every step leaves the file
\* as it was or replaces it by the whole serialisation of the sequence some
\* invocation is persisting, also on failed attempts and after process.exit.
C2_AtomicReplace ==
    /\ [](file.written = file.size)
    /\ [][ file' = file \/ \E i \in Calls : file' = jsonText(invs[i].toWrite) ]_vars

\* the process has exited in the middle of a persist (temporary file not yet
\* complete) and the store still holds what it held when the run began
C2_Witness ==
    \E i \in Calls :
        /\ exited
        /\ invs[i].pc = "writing" /\ invs[i].tmp < jsonText(invs[i].toWrite).size
        /\ file = invs[i].before /\ file.kind = "array" /\ file.logs # <<>>

\* C3 (as claimed): after trimLogsToFitSize returns, the result's serialised
\* size is within the budget, or the result is exactly one record whose own
\* size exceeds the budget.
C3_Claim ==
    tPc = "returned" =>
        \/ byteLength(tOut) <= tBudget
        \/ Len(tOut) = 1 /\ Head(tOut).bytes > tBudget

\* C4 (as claimed): a record that alone exceeds the budget is kept and
\* persisted: once an invocation's rename has taken effect the store holds a
\* non-empty sequence ending in the record just generated.
C4_Claim ==
    \A i \in Calls :
        invs[i].pc = "renamed" =>
            /\ file.logs # <<>>
            /\ file.logs[Len(file.logs)] = invs[i].existing[Len(invs[i].existing)]

\* C5: the result of trimLogsToFitSize is the input with its first k records
\* removed and nothing else changed; an input that fits is returned whole; and
\* every shorter removal would have left a sequence over the budget.
C5_OldestFirst ==
    tPc = "returned" =>
        LET k == Len(tLogs) - Len(tOut)
        IN  /\ k >= 0
            /\ tOut = SubSeq(tLogs, k + 1, Len(tLogs))
            /\ byteLength(tLogs) <= tBudget => tOut = tLogs
            /\ \A j \in 0..(k - 1) :
                  byteLength(SubSeq(tLogs, j + 1, Len(tLogs))) > tBudget

\* some records were evicted and some were kept
C5_Witness ==
    tPc = "returned" /\ tOut # <<>> /\ Len(tOut) < Len(tLogs)

\* C6: while an invocation persists it has made between 1 and
\* MAX_WRITE_RETRIES atomicWriteJson calls, one more than have failed; after a
\* rename has taken effect it makes no further call; it ends as saved only
\* after its rename took effect, and as failed only when the
\* MAX_WRITE_RETRIES-th call failed.
C6_BoundedRetries ==
    /\ [](\A i \in Calls :
            /\ invs[i].pc \in {"writing", "rename", "renamed"} =>
                  /\ invs[i].calls >= 1 /\ invs[i].calls <= MAX_WRITE_RETRIES
                  /\ invs[i].calls = invs[i].attempt + 1
            /\ invs[i].pc = "backoff" =>
                  invs[i].calls = invs[i].attempt /\ invs[i].attempt < MAX_WRITE_RETRIES)
    /\ [][ \A i \in Calls :
            /\ invs[i].pc = "renamed" => invs'[i].calls <= invs[i].calls
            /\ (Ends(i) /\ invs'[i].outcome = "saved") =>
                  invs[i].pc = "renamed" /\ file = jsonText(invs[i].toWrite)
            /\ (Ends(i) /\ invs'[i].outcome = "failed") =>
                  /\ invs[i].pc \in {"writing", "rename"}
                  /\ invs[i].calls = MAX_WRITE_RETRIES ]_vars

\* one run gave up after its last attempt and another saved after a retry
C6_Witness ==
    \E i \in Calls, j \in Calls :
        /\ invs[i].outcome = "failed"
        /\ invs[j].pc = "renamed" /\ invs[j].calls > 1

C8_Claim ==
    shutdownMode = "final" =>
        /\ Cardinality(DrainRuns) = 1
        /\ exited => \A i \in DrainRuns : invs[i].pc = "done"

\* C9: a drain that began with an invocation in flight makes no runOnce call
\* of its own; it ends the process only once running is false or 5000 ms have
\* passed; and it always ends the process, whatever the invocation does.
C9_BoundedWait ==
    /\ [](shutdownMode = "wait" => DrainRuns = {})
    /\ [][ (shutdownMode = "wait" /\ ~exited /\ exited') =>
              (~running \/ waited' >= SHUTDOWN_TIMEOUT_MS) ]_vars
    /\ (shutdownMode = "wait" ~> exited)

\* the timeout ended the drain with the invocation still in flight
C9_Witness ==
    /\ exited /\ shutdownMode = "wait" /\ running
    /\ waited = SHUTDOWN_TIMEOUT_MS /\ InFlight # {}

\* C10: the body of gracefulShutdown runs at most once: there is at most one
\* drain and at most one drain run; a trigger that arrives after the first
\* changes nothing; and a drain started by an uncaught exception is a drain
\* like any other.
C10_DrainOnce ==
    /\ [](/\ drains <= 1
          /\ Cardinality(DrainRuns) <= 1
          /\ shutdownInitiated <=> drains = 1
          /\ shutdownInitiated <=> shutdownMode \in {"final", "wait"}
          /\ shutdownMode = "final" <=> DrainRuns # {})
    /\ [][ (shutdownInitiated /\ retriggered' # retriggered) =>
              UNCHANGED <<file, running, invs, timer, exitTimer, exited,
                          shutdownInitiated, shutdownMode, waited, drains>> ]_vars

\* a drain run is in flight and a later trigger has been ignored
C10_Witness ==
    retriggered /\ drains = 1 /\ shutdownMode = "final" /\ ~exited

(***************************************************************************)
(* The documented formula of the fallback stream, in unsigned 32-bit       *)
(* arithmetic: the hash, the state before the k-th draw, the k-th draw.    *)
(***************************************************************************)
RECURSIVE FormulaHashFrom(_, _)
FormulaHashFrom(h, str) ==
    IF str = <<>> THEN h
    ELSE LET h2 == imul(Xor32(h, U32(0, Head(str))), U32(256, 403))
         IN  IF Computed(h2) THEN FormulaHashFrom(h2, Tail(str)) ELSE h2

FormulaHash(str) == FormulaHashFrom(U32(33052, 40389), str)

RECURSIVE FormulaState(_, _)
FormulaState(h, k) ==
    IF k = 0 THEN h ELSE Add32(FormulaState(h, k - 1), U32(27947, 31221))

FormulaDraw(h, k) ==
    LET t == FormulaState(h, k)
        r == imul(Xor32(t, Shr32(t, 15)), Or32(t, U32(0, 1)))
        s == Xor32(r, Add32(r, imul(Xor32(r, Shr32(r, 7)), Or32(r, U32(0, 61)))))
    IN  Xor32(s, Shr32(s, 14))

Streams == 1..Len(streams)

\* C15: for every seed string the hash of both copies is the documented FNV-1a
\* value, and the k-th draw of every fallback stream, in the generator's process
\* and in the replay tool's, is the documented formula's k-th value, a numerator
\* between 0 and 2^32 - 1.
C15_BitExact ==
    /\ xfnv1a(rngSeed) = FormulaHash(rngSeed)
    /\ replayXfnv1a(rngSeed) = FormulaHash(rngSeed)
    /\ \A i \in Streams :
          streams[i].g.name = "mulberry32" =>
             \A k \in 1..Len(streams[i].outs) :
                /\ streams[i].outs[k] = FormulaDraw(FormulaHash(rngSeed), k)
                /\ streams[i].outs[k].hi \in 0..65535
                /\ streams[i].outs[k].lo \in 0..65535

\* the seed "abc123" hashes to 951228933 and a generator's and a replay's
\* stream have both drawn 4027851670, 4810801 and 946128302 from it
C15_Witness ==
    /\ rngSeed = <<97, 98, 99, 49, 50, 51>>
    /\ xfnv1a(rngSeed) = U32(14514, 39429)
    /\ \E i \in Streams, j \in Streams :
          /\ streams[i].by = "generator" /\ streams[j].by = "replay"
          /\ streams[i].outs = <<U32(61518, 8086), U32(73, 26673), U32(14436, 50606)>>
          /\ streams[j].outs = streams[i].outs

\* C16: streams made from the same seed with the same algorithm selection give
\* the same draws whatever the order in which they are drawn from: a draw on
\* one stream changes no other stream, and a stream made later starts from the
\* seed, not from where a used stream stands.
C16_IndependentStreams ==
    /\ [](\A i \in Streams, j \in Streams :
             \A k \in 1..Min(Len(streams[i].outs), Len(streams[j].outs)) :
                streams[i].outs[k] = streams[j].outs[k])
    /\ [][ \A i \in Streams :
              streams'[i].outs # streams[i].outs =>
                 \A j \in Streams \ {i} : streams'[j] = streams[j] ]_vars
    /\ [][ Len(streams') > Len(streams) =>
              /\ streams'[Len(streams')].g.n = 0
              /\ streams'[Len(streams')].outs = <<>>
              /\ SubSeq(streams', 1, Len(streams)) = streams ]_vars

\* one stream has been drawn from to the end, the other only once
C16_Witness ==
    /\ Len(streams) = 2
    /\ Len(streams[1].outs) = 1 /\ Len(streams[2].outs) = MaxDraws
    /\ streams[1].by # streams[2].by

Outputs == 1..Len(store)
Replays == 1..Len(replay)

\* the position the moves ms lead to from pos
RECURSIVE PositionAfter(_, _, _)
PositionAfter(e, pos, ms) ==
    IF ms = <<>> THEN pos
    ELSE PositionAfter(e, move(e, pos, Head(ms)), Tail(ms))

\* the moves in a move text
SanCount(pgnMoves) == Cardinality({k \in 1..Len(pgnMoves) : pgnMoves[k].num = 0})

\* C11: two calls of the generator with the same seed, the same ply cap, the
\* same algorithm and the same rules provider give the same move list, the
\* same move text and the same final position.
C11_SameSeedSameGame ==
    \A i \in Outputs, j \in Outputs :
        (store[i].entry.seed = store[j].entry.seed
            /\ store[i].entry.rng = store[j].entry.rng) =>
           /\ store[i].moves = store[j].moves
           /\ store[i].entry.message = store[j].entry.message
           /\ store[i].entry.final_fen = store[j].entry.final_fen

\* the same seed has given the same game of two plies or more at two instants
C11_Witness ==
    \E i \in Outputs, j \in Outputs :
        /\ i < j
        /\ store[i].entry.seed = store[j].entry.seed
        /\ store[i].entry.timestamp # store[j].entry.timestamp
        /\ Len(store[i].moves) >= 2
        /\ store[i].moves = store[j].moves

\* C12 (as claimed): two calls of the generator with the same seed, cap,
\* algorithm and rules provider return the same entry, field for field, the
\* transcript's headers and the completion timestamp included.
C12_Claim ==
    \A i \in Outputs, j \in Outputs :
        (store[i].entry.seed = store[j].entry.seed
            /\ store[i].entry.rng = store[j].entry.rng) =>
           store[i].entry = store[j].entry

\* C13: a replay of a stored entry that runs with the algorithm the entry
\* names plays the entry's moves again, and the comparison reports the
\* transcript match and the final-position match.
C13_ReplayReproduces ==
    \A r \in Replays :
        (replay[r].ran
            /\ replay[r].rng = store[replay[r].selected].entry.rng) =>
           /\ replay[r].moves = store[replay[r].selected].moves
           /\ replay[r].pgnMatch
           /\ replay[r].fenMatch

\* a finished game of three plies, its seed drawn at random, has been replayed
C13_Witness ==
    \E r \in Replays :
        /\ replay[r].ran /\ replay[r].pgnMatch /\ replay[r].fenMatch
        /\ Len(replay[r].moves) = 3
        /\ store[replay[r].selected].entry.seed \in RandomSeeds
        /\ store[replay[r].selected].entry.result # "*"

\* C14 (as claimed): a replay builds its stream with the algorithm named in
\* the stored entry's rng field, whatever its own process is configured for.
C14_Claim ==
    \A r \in Replays :
        replay[r].ran => replay[r].rng = store[replay[r].selected].entry.rng

\* C17: in every entry move_count is the number of moves played, the number of
\* moves in the move text, the PlyCount header and the number of draws made
\* from the stream, and it is at most the ply cap.
C17_PlyCount ==
    \A i \in Outputs :
        /\ store[i].entry.move_count = Len(store[i].moves)
        /\ store[i].entry.move_count = SanCount(store[i].entry.pgn.moves)
        /\ store[i].entry.move_count = store[i].entry.pgn.headers.PlyCount
        /\ store[i].entry.move_count = store[i].draws
        /\ store[i].entry.move_count = store[i].ply
        /\ store[i].entry.move_count <= MAX_MOVES

\* one game stopped at a cap of two plies or more, another ended before it
C17_Witness ==
    \E i \in Outputs, j \in Outputs :
        /\ MAX_MOVES >= 2
        /\ store[i].entry.move_count = MAX_MOVES /\ store[i].entry.result = "*"
        /\ store[j].entry.move_count < MAX_MOVES /\ store[j].entry.move_count > 0

\* C18: no call of the generator faults or plays more than MAX_MOVES plies;
\* the recorded moves lead exactly to the position the loop stopped at; and a
\* game stopped at a position for which the provider returns no moves and no
\* classification is reported with result * and no reason.
C18_StopsWithoutMoves ==
    \A i \in Outputs :
        /\ ~store[i].fault
        /\ Len(store[i].moves) <= MAX_MOVES
        /\ PositionAfter(engine, newChess, store[i].moves) = store[i].stopped
        /\ store[i].entry.final_fen = fen(store[i].stopped)
        /\ (noMoves(moves(engine, store[i].stopped))
               /\ classOf(engine, store[i].stopped) = "none") =>
              /\ store[i].entry.result = "*"
              /\ store[i].entry.reason = ""

\* the provider returned no list at an unclassified position before the cap
C18_Witness ==
    \E i \in Outputs :
        /\ engine = "silentMissing"
        /\ moves(engine, store[i].stopped).missing
        /\ store[i].entry.move_count < MAX_MOVES
        /\ store[i].entry.result = "*"

\* C19: the result follows the classification of the final position:
\* checkmate gives 1-0 with black to move and 0-1 with white to move; stalemate,
\* repetition, insufficient material and any other draw give 1/2-1/2; no
\* classification gives * with an empty reason; the Result header and the
\* transcript's last token carry the same code.
C19_ResultCode ==
    \A i \in Outputs :
        LET c == classOf(engine, store[i].stopped)
            e == store[i].entry
        IN  /\ c = "checkmate" =>
                 e.result = (IF store[i].stopped.turn = "b" THEN "1-0" ELSE "0-1")
            /\ c \in {"stalemate", "threefold", "insufficient", "draw"} =>
                 e.result = "1/2-1/2"
            /\ c = "none" => (e.result = "*" /\ e.reason = "")
            /\ c # "none" => e.reason # ""
            /\ e.pgn.headers.Result = e.result
            /\ e.pgn.result = e.result

\* one game was won by white and one by black
C19_Witness ==
    \E i \in Outputs, j \in Outputs :
        store[i].entry.result = "1-0" /\ store[j].entry.result = "0-1"

\* C20: with L entries stored, --index n for 0 <= n < L selects the entry at
\* position L - n counted from 1 (0 the newest, L - 1 the oldest), replays its
\* seed and exits with 0; any other n selects nothing, replays nothing and
\* exits with 3.
C20_IndexFromNewest ==
    \A r \in Replays :
        IF replay[r].index \in 0..(Len(store) - 1)
        THEN /\ replay[r].selected = Len(store) - replay[r].index
             /\ replay[r].ran
             /\ replay[r].seed = store[Len(store) - replay[r].index].entry.seed
             /\ replay[r].exit = 0
        ELSE /\ replay[r].selected = 0
             /\ ~replay[r].ran
             /\ replay[r].exit = 3

\* of two entries with different seeds, --index 1 has replayed the older
C20_Witness ==
    \E r \in Replays :
        /\ Len(store) = 2 /\ replay[r].index = 1 /\ replay[r].selected = 1
        /\ replay[r].ran
        /\ store[1].entry.seed # store[2].entry.seed

\* the runOnce calls that passed the overlap guard
Started == { i \in Calls : invs[i].pc # "skipped" }

\* C28 (as claimed): once gracefulShutdown has set shutdownInitiated, the only
\* runOnce call that passes the overlap guard is the drain's own: no timer tick
\* takes running from false to true before the process has exited.
C28_Claim ==
    [][ shutdownInitiated =>
          \A i \in 1..Len(invs') :
              (i > Len(invs) /\ invs'[i].pc # "skipped") => invs'[i].by = "shutdown" ]_vars

\* Every file operation and every timer of a live process eventually comes
\* back: readFile returns or rejects, writeFile returns or rejects, rename takes
\* effect or rejects and then returns, the backoff and the drain's sleep end.
\* How an operation comes back is left open.
IoFairSpec ==
    /\ Spec
    /\ WF_vars(\E i \in Calls : ReadReturn(i))
    /\ WF_vars(\E i \in Calls : WriteReturn(i) \/ WriteFail(i))
    /\ WF_vars(\E i \in Calls : RenameFs(i) \/ RenameFail(i))
    /\ WF_vars(\E i \in Calls : RenameReturn(i))
    /\ WF_vars(\E i \in Calls : BackoffFire(i))
    /\ WF_vars(ShutdownPoll)

\* C29: a runOnce call that has set running ends with running false again,
\* whether it saved or gave up after its last attempt (a failed load is an
\* empty load and the call goes on); and while the process lives every such
\* call does end, so that running is never left set.
C29_ReturnsToIdle ==
    /\ [][ \A i \in Calls : Ends(i) => ~running' ]_vars
    /\ running ~> (~running \/ exited)

\* a call gave up persisting and left the unusable file it found; a later tick
\* has been let in and is in flight
C29_Witness ==
    \E i \in Calls, j \in Started :
        /\ i < j /\ invs[j].by = "timer"
        /\ invs[i].outcome = "failed"
        /\ j \in InFlight /\ invs[j].before.kind \in {"malformed", "nonarray"}

\* s is t with some of its first elements removed
IsSuffix(s, t) ==
    Len(s) <= Len(t) /\ s = SubSeq(t, Len(t) - Len(s) + 1, Len(t))

\* C25: the store's records are always in generation order, none twice; and
\* every step that changes the store puts there a suffix of what the persisting
\* call holds, which is the sequence it loaded (the store's records as they
\* were when it began, or none when the load gave nothing) followed by the one
\* record it generated.
C25_GenerationOrder ==
    /\ [](\A j, k \in 1..Len(file.logs) : j < k => file.logs[j].id < file.logs[k].id)
    /\ [][ file' # file =>
             \E i \in Calls :
                LET existing == invs[i].existing
                    loaded == SubSeq(existing, 1, Len(existing) - 1)
                IN  /\ invs[i].pc = "rename"
                    /\ existing # <<>> /\ existing[Len(existing)].id = i
                    /\ loaded \in {loadLogs(invs[i].before, TRUE), <<>>}
                    /\ file.kind = "array" => loaded \in {file.logs, <<>>}
                    /\ IsSuffix(file'.logs, existing) ]_vars

\* a run loaded two records, added a third, and persisted the two newest: the
\* oldest was evicted and the order kept
C25_Witness ==
    \E i \in Calls :
        /\ invs[i].pc = "renamed"
        /\ Len(invs[i].existing) = 3 /\ Len(file.logs) = 2
        /\ file.logs = SubSeq(invs[i].existing, 2, 3)

DrawOf(name, seed, k) ==
    IF name = "mulberry32" THEN FormulaDraw(FormulaHash(seed), k)
    ELSE xfnv1a(Append(seed, k))

\* what the last call of the generator was given against what it returned
SeedRecorded(a, out) ==
    Let(out.entry, LAMBDA e :
    Let(out.moves, LAMBDA ms :
        /\ Len(a.seedString) > 0 => e.seed = a.seedString
        /\ Len(a.seedString) = 0 => e.seed = a.random /\ e.seed \in RandomSeeds
        /\ e.rng = (IF seedrandomAvailable THEN "seedrandom" ELSE "mulberry32")
        /\ \A k \in 1..Len(ms) :
              Let(moves(engine, PositionAfter(engine, newChess, SubSeq(ms, 1, k - 1))).list,
                  LAMBDA list :
                      ms[k] = list[pickIndex(DrawOf(e.rng, e.seed, k), Len(list)) + 1])))

\* C27: an entry's seed is the seed supplied when one was supplied, and else
\* the 16 hex digits drawn for that call; its rng names the algorithm the
\* process selected; every move of the game is the one the k-th draw of that
\* algorithm's stream from that seed picks among the legal moves; and an entry
\* once returned is never changed.
C27_SeedRecorded ==
    /\ []((store # <<>> /\ replay = <<>>) =>
            SeedRecorded(asked[Len(asked)], store[Len(store)]))
    /\ [][ /\ Len(asked') = Len(store')
           /\ \A i \in Outputs : store'[i] = store[i] /\ asked'[i] = asked[i] ]_vars

\* one game played from a supplied seed and one from a drawn seed, of two
\* plies or more each, by the fallback algorithm
C27_Witness ==
    \E i \in Outputs, j \in Outputs :
        /\ Len(asked[i].seedString) > 0 /\ Len(asked[j].seedString) = 0
        /\ store[i].entry.seed = asked[i].seedString
        /\ store[j].entry.seed = asked[j].random
        /\ store[i].entry.rng = "mulberry32"
        /\ Len(store[i].moves) >= 2 /\ Len(store[j].moves) >= 2

\* C23 (as claimed): a call of loadLogs returns the persisted sequence when the
\* file holds a JSON array, and the empty sequence when the file is absent,
\* unreadable, malformed or no array, with a warning logged in the malformed
\* and the non-array case; the run goes on with that sequence and its record
\* pushed at the end.
C23_Claim ==
    \A c \in { k \in 1..Len(ldOut) : ldOut[k].pc # "reading" } :
        LET f == ldOut[c].before
            usable == f.kind = "array" /\ parses(f) /\ ldOut[c].readOk
        IN  /\ usable => ldOut[c].logs = f.logs
            /\ ~usable => ldOut[c].logs = <<>>
            /\ (f.kind # "absent" /\ ldOut[c].readOk /\ ~usable) => ldOut[c].warned
            /\ Len(ldOut[c].existing) = Len(ldOut[c].logs) + 1
            /\ SubSeq(ldOut[c].existing, 1, Len(ldOut[c].logs)) = ldOut[c].logs

\* the path p names something below the directory dir: its segments are
\* those of dir followed by at least one more
Under(p, dir) ==
    LET ps == splitPath(p, <<>>, <<>>)
        ds == splitPath(dir, <<>>, <<>>)
    IN  Len(ps) > Len(ds) /\ SubSeq(ps, 1, Len(ds)) = ds

\* the path is absolute and has no empty, "." or ".." segment
Resolved(p) ==
    LET ps == splitPath(p, <<>>, <<>>)
    IN  /\ Len(ps) >= 2 /\ ps[1] = <<>>
        /\ \A k \in 2..Len(ps) : ps[k] \notin {<<>>, <<DOT>>, <<DOT, DOT>>}

Commands == 1..Len(cmd)

\* C21: a run of the replay command that got past its argument loop has
\* resolved the store path; if that path is not below the base directory the
\* run exits with code 1 having read no file and replayed nothing, whether it
\* was asked to list, to replay a seed or to replay an index; and a run that
\* read a file read one below the base directory.
C21_PathChecked ==
    \A c \in Commands :
        cmd[c].mode \notin {"usage", "unloaded"} =>
            /\ Resolved(cmd[c].filePath)
            /\ ~Under(cmd[c].filePath, BASE_DIR) =>
                   cmd[c].exit = 1 /\ cmd[c].reads = 0 /\ ~cmd[c].ran
            /\ cmd[c].reads > 0 => Under(cmd[c].filePath, BASE_DIR)

\* --file with a path that leaves the base directory through "..", together
\* with --index 0 on a store that holds entries, was rejected
C21_Witness ==
    \E c \in Commands :
        /\ store # <<>> /\ cmd[c].disk = "array"
        /\ \E k \in 1..(Len(cmd[c].fileArg) - 1) :
              cmd[c].fileArg[k] = DOT /\ cmd[c].fileArg[k + 1] = DOT
        /\ ~cmd[c].indexArg.null /\ cmd[c].indexArg.n = 0
        /\ ~Under(cmd[c].filePath, BASE_DIR)
        /\ cmd[c].exit = 1 /\ cmd[c].reads = 0

\* the run's index selects an entry of the stored array
SelectsEntry(c) ==
    /\ ~c.indexArg.null /\ ~c.indexArg.nan
    /\ c.stored - 1 - c.indexArg.n \in 0..(c.stored - 1)

\* C22: the exit code of a run of the replay command is 1 when the arguments
\* are bad or the path is rejected, 2 whenever the store it read could not be
\* read or parsed or was no array, while listing and while replaying by index
\* alike, 3 only when the store was read and the index selects no entry, and
\* 0 otherwise; a replay that does not match the stored record still exits 0.
C22_Claim ==
    \A c \in Commands :
        /\ cmd[c].mode = "rejected" => cmd[c].exit = 1
        /\ cmd[c].mode = "usage" => cmd[c].exit = IF cmd[c].help THEN 0 ELSE 1
        /\ (cmd[c].reads > 0 /\ cmd[c].disk # "array") => cmd[c].exit = 2
        /\ cmd[c].exit = 3 =>
               /\ cmd[c].mode = "index" /\ cmd[c].disk = "array"
               /\ ~SelectsEntry(cmd[c])
        /\ (cmd[c].mode = "index" /\ cmd[c].disk = "array"
                /\ ~SelectsEntry(cmd[c])) => cmd[c].exit = 3
        /\ cmd[c].ran => cmd[c].exit = 0

\* the records of data whose final position no earlier record has, in order
RECURSIVE FirstOfEachKey(_, _)
FirstOfEachKey(data, i) ==
    IF i > Len(data) THEN <<>>
    ELSE (IF \E j \in 1..(i - 1) : data[j].final_fen = data[i].final_fen
          THEN <<>> ELSE <<data[i]>>) \o FirstOfEachKey(data, i + 1)

Uploads == 1..Len(uploaded)

\* C26: the body the upload task sends for a store of generated records holds
\* the first record of each final position and no other, in the store's order.
C26_Claim ==
    \A u \in Uploads :
        (/\ uploaded[u].sent
         /\ \A i \in 1..Len(uploaded[u].data) :
               "final_fen" \in DOMAIN uploaded[u].data[i]) =>
            uploaded[u].body = FirstOfEachKey(uploaded[u].data, 1)

====
